---------------------------- MODULE Spec2Model ----------------------------
(***************************************************************************)
(* Turn-based tactical combat core: deterministic generator, combat log,   *)
(* attack resolution, action resolver, turn/round scheduler and enemy AI.  *)
(*                                                                         *)
(* Specifications:                                                         *)
(*   SpecAttack  rollAttack as a function of attacker, weapon, target and  *)
(*               the faces the generator returns                           *)
(*   SpecLog     CombatLogger.addEntry                                     *)
(*   SpecRng     two SeededRNG instances driven in lock step               *)
(*   Spec        CombatEngine over a caller-built CombatState              *)
(*   SpecPath    findPath over small boards                                *)
(*   SpecAI      EnemyAI.generateAction over drawn combat states           *)
(***************************************************************************)
EXTENDS Integers, Sequences, FiniteSets, TLC

VARIABLES
    atk,        \* SpecAttack: inputs and result of the last rollAttack call
    log,        \* SpecLog: CombatLogger.log, entries named by emission number
    logCount,   \* SpecLog: number of addEntry calls so far
    logLast,    \* SpecLog: log length just before the last addEntry
    genA,       \* SpecRng: seed field of the first generator
    genB,       \* SpecRng: seed field of the second generator
    outA,       \* SpecRng: value returned by the last call on the first
    outB,       \* SpecRng: value returned by the last call on the second
    rngCalls,   \* SpecRng: number of calls made on each generator
    combatState,  \* Spec: the CombatState the engine was constructed over
    turnHistory,  \* Spec: current actor, turn and round after the latest
                  \*       initializeCombat / endTurn calls (newest last)
    pathQuery,    \* SpecPath: start, end and excludeCharacter of the call
    pathFound,    \* SpecPath: what findPath returned
    aiQuery,      \* SpecAI: the character generateAction is called for, and
                  \*         what choice() draws
    proposed,     \* SpecAI: what generateAction returned
    sightQuery,   \* SpecSight: start and end of the hasLineOfSight call
    inSight       \* SpecSight: what hasLineOfSight returned

attackVars == <<atk>>
logVars == <<log, logCount, logLast>>
rngVars == <<genA, genB, outA, outB, rngCalls>>
engineVars == <<combatState, turnHistory>>
queryVars == <<pathQuery, pathFound, aiQuery, proposed, sightQuery, inSight>>
vars == <<atk, log, logCount, logLast, genA, genB, outA, outB, rngCalls,
          combatState, turnHistory, pathQuery, pathFound, aiQuery, proposed,
          sightQuery, inSight>>

NONE == "none"

Max(a, b) == IF a >= b THEN a ELSE b
Min(a, b) == IF a <= b THEN a ELSE b
Abs(a) == IF a < 0 THEN 0 - a ELSE a

(***************************************************************************)
(* Character statistics                                                    *)
(***************************************************************************)

\* Math.floor((score - 10) / 2); \div rounds toward minus infinity
getModifier(score) == (score - 10) \div 2

\* Math.ceil(level / 4) + 1
getProficiencyBonus(level) == ((level + 3) \div 4) + 1

(***************************************************************************)
(* Weapons.  Each WEAPONS literal gives `properties` twice: the array the  *)
(* WeaponData interface declares and rollAttack tests with includes(), and *)
(* an Item-style object after it.  The table below carries the array.      *)
(***************************************************************************)

WEAPONS ==
    [ dagger    |-> [category |-> "melee",  finesse |-> TRUE,
                     dice |-> <<"1", "d", "4">>, rangeNormal |-> 5],
      longsword |-> [category |-> "melee",  finesse |-> FALSE,
                     dice |-> <<"1", "d", "8">>, rangeNormal |-> 5],
      shortbow  |-> [category |-> "ranged", finesse |-> FALSE,
                     dice |-> <<"1", "d", "6">>, rangeNormal |-> 80] ]

\* the value of an absent weapon (undefined): category "none", no dice
NoWeapon == [category |-> "none", finesse |-> FALSE, dice |-> <<>>, rangeNormal |-> 0]

\* WEAPONS[id]; an absent id or one outside the table gives undefined
getWeaponById(id) == IF id \in DOMAIN WEAPONS THEN WEAPONS[id] ELSE NoWeapon

(***************************************************************************)
(* Dice expressions.  A dice string is a tuple of one-character strings.   *)
(***************************************************************************)

Digits == {"0", "1", "2", "3", "4", "5", "6", "7", "8", "9"}

DigitVal(c) ==
    CASE c = "0" -> 0 [] c = "1" -> 1 [] c = "2" -> 2 [] c = "3" -> 3
      [] c = "4" -> 4 [] c = "5" -> 5 [] c = "6" -> 6 [] c = "7" -> 7
      [] c = "8" -> 8 [] c = "9" -> 9

SetMin(S) == CHOOSE x \in S : \A y \in S : x <= y

\* first index at or after i that holds no digit (Len(s) + 1 at the end)
DigitRunEnd(s, i) ==
    SetMin({j \in i..(Len(s) + 1) : j = Len(s) + 1 \/ s[j] \notin Digits})

\* parseInt of the digits s[i..j-1]
RECURSIVE ParseDigits(_, _, _)
ParseDigits(s, i, j) ==
    IF j <= i THEN 0 ELSE ParseDigits(s, i, j - 1) * 10 + DigitVal(s[j - 1])

\* /(\d+)?d(\d+)([+\-]\d+)?/ matches with its first character at i
DiceMatchAt(s, i) ==
    LET j == DigitRunEnd(s, i)
    IN  j <= Len(s) /\ s[j] = "d" /\ j + 1 <= Len(s) /\ s[j + 1] \in Digits

\* the groups of a match: count digits s[i..j-1], sides digits s[j+1..k-1]
DiceGroups(s, i, j, k) ==
    LET hasMod == k + 1 <= Len(s) /\ s[k] \in {"+", "-"} /\ s[k + 1] \in Digits
        m  == IF hasMod THEN ParseDigits(s, k + 1, DigitRunEnd(s, k + 1)) ELSE 0
    IN  [ok |-> TRUE,
         count |-> IF j > i THEN ParseDigits(s, i, j) ELSE 1,
         sides |-> ParseDigits(s, j + 1, k),
         modifier |-> IF hasMod /\ s[k] = "-" THEN 0 - m ELSE m]

\* the groups of the match that starts at i
DiceGroupsFrom(s, i) ==
    LET j == DigitRunEnd(s, i)
    IN  DiceGroups(s, i, j, DigitRunEnd(s, j + 1))

\* the groups of the leftmost match: count, sides, modifier
DiceMatch(s) ==
    LET starts == {i \in 1..Len(s) : DiceMatchAt(s, i)}
    IN  IF starts = {} THEN [ok |-> FALSE, count |-> 0, sides |-> 0, modifier |-> 0]
        ELSE DiceGroupsFrom(s, SetMin(starts))

RECURSIVE SumSeq(_)
SumSeq(q) == IF q = <<>> THEN 0 ELSE Head(q) + SumSeq(Tail(q))

\* rollDice: modifier plus the faces of `count` rollDie(sides) calls
rollDice(modifier, faces) == modifier + SumSeq(faces)

\* parseDiceString; faces are what the rollDie calls of the match return
RollMatch(m, faces) ==
    IF ~m.ok THEN 0 ELSE rollDice(m.modifier, SubSeq(faces, 1, m.count))

parseDiceString(s, faces) == RollMatch(DiceMatch(s), faces)

(***************************************************************************)
(* Attack resolution                                                       *)
(***************************************************************************)

\* weapon?.damage?.dice || '1d4'
DamageDice(weapon) ==
    IF weapon.category = "none" THEN <<"1", "d", "4">> ELSE weapon.dice

\* attack bonus with the proficiency term rounded down
AttackBonusFloorLevel(attacker, weapon) ==
    LET str == getModifier(attacker.strength)
        dex == getModifier(attacker.dexterity)
        ability == IF weapon.finesse THEN Max(str, dex)
                   ELSE IF weapon.category = "ranged" THEN dex
                   ELSE str
    IN  ability + (attacker.level \div 4) + 1

\* attack bonus that takes Dexterity for every finesse weapon
AttackBonusDexFinesse(attacker, weapon) ==
    LET str == getModifier(attacker.strength)
        dex == getModifier(attacker.dexterity)
        ability == IF weapon.finesse \/ weapon.category = "ranged" THEN dex
                   ELSE str
    IN  ability + ((attacker.level + 3) \div 4) + 1

\* attack bonus of rollAttack: ability modifier plus proficiency
AttackBonus(attacker, weapon) ==
    LET str == getModifier(attacker.strength)
        dex == getModifier(attacker.dexterity)
        ability == IF weapon.finesse THEN Max(str, dex)
                   ELSE IF weapon.category = "ranged" THEN dex
                   ELSE str
    IN  ability + ((attacker.level + 3) \div 4) + 1

\* ability modifier rollAttack adds to the damage
DamageModifier(attacker, weapon) ==
    IF weapon.category = "ranged" THEN getModifier(attacker.dexterity)
    ELSE getModifier(attacker.strength)

\* damage of a hit with the floor at 1 applied after the critical dice
HitDamageFloorLast(attacker, weapon, d20Roll, faces1, faces2) ==
    LET sum == parseDiceString(DamageDice(weapon), faces1)
               + DamageModifier(attacker, weapon)
    IN  IF d20Roll = 20
        THEN Max(1, sum + parseDiceString(DamageDice(weapon), faces2))
        ELSE Max(1, sum)

\* damage of a hit: floored at 1, then the critical dice on a natural 20
HitDamage(attacker, weapon, d20Roll, faces1, faces2) ==
    LET base == Max(1, parseDiceString(DamageDice(weapon), faces1)
                       + DamageModifier(attacker, weapon))
    IN  IF d20Roll = 20
        THEN base + parseDiceString(DamageDice(weapon), faces2)
        ELSE base

\* rollAttack; d20Roll, faces1, faces2 are what globalRNG returns
rollAttack(attacker, targetAC, weaponId, d20Roll, faces1, faces2) ==
    LET weapon == getWeaponById(weaponId)
        attackRoll == d20Roll + AttackBonus(attacker, weapon)
        hit == attackRoll >= targetAC
    IN  [hit |-> hit, attackRoll |-> attackRoll,
         damage |-> IF hit THEN HitDamage(attacker, weapon, d20Roll, faces1, faces2)
                    ELSE 0]

(***************************************************************************)
(* SpecAttack: rollAttack over attackers, weapons and generator outcomes   *)
(***************************************************************************)

AttackStrengths == {6, 10, 16}
AttackDexterities == {8, 14}
AttackLevels == {1, 4, 5}
AttackArmorClasses == {10, 15}
AttackWeaponIds == {NONE, "dagger", "longsword", "shortbow", "club"}

AttackIdle(str, dex, lvl, ac, wid) ==
    [called |-> FALSE, strength |-> str, dexterity |-> dex, level |-> lvl,
     targetAC |-> ac, weaponId |-> wid, d20 |-> 0, r1 |-> 0, r2 |-> 0,
     hit |-> FALSE, attackRoll |-> 0, damage |-> 0]

InitAttack ==
    \E str \in AttackStrengths, dex \in AttackDexterities, lvl \in AttackLevels,
       ac \in AttackArmorClasses, wid \in AttackWeaponIds :
        atk = AttackIdle(str, dex, lvl, ac, wid)

\* one call of rollAttack; the generator returns d20, then r1 and r2
RollAttackCall ==
    /\ ~atk.called
    /\ LET sides == DiceMatch(DamageDice(getWeaponById(atk.weaponId))).sides
       IN  \E d20 \in 1..20, r1 \in 1..sides, r2 \in 1..sides :
            LET res == rollAttack(atk, atk.targetAC, atk.weaponId, d20, <<r1>>, <<r2>>)
            IN  atk' = [atk EXCEPT !.called = TRUE, !.d20 = d20, !.r1 = r1,
                                   !.r2 = IF res.hit /\ d20 = 20 THEN r2 ELSE 0,
                                   !.hit = res.hit, !.attackRoll = res.attackRoll,
                                   !.damage = res.damage]

AttackNext == RollAttackCall /\ UNCHANGED <<logVars, rngVars, engineVars, queryVars>>

(***************************************************************************)
(* Combat log                                                              *)
(***************************************************************************)

LogLimit == 100
LogKeep == 50

\* Array.prototype.slice(-n)
SliceLast(q, n) == SubSeq(q, Max(0, Len(q) - n) + 1, Len(q))

\* addEntry trimming to the oldest entries, slice(0, 50)
addEntryKeepOldest(entries, entry) ==
    LET pushed == Append(entries, entry)
    IN  IF Len(pushed) > LogLimit THEN SubSeq(pushed, 1, LogKeep) ELSE pushed

\* CombatLogger.addEntry: push, then trim once the log exceeds LogLimit
addEntry(entries, entry) ==
    LET pushed == Append(entries, entry)
    IN  IF Len(pushed) > LogLimit THEN SliceLast(pushed, LogKeep) ELSE pushed

MaxEmitted == 160

InitLog == log = <<>> /\ logCount = 0 /\ logLast = 0

\* one logged event; the entry is named by its emission number
AddEntryCall ==
    /\ logCount < MaxEmitted
    /\ log' = addEntry(log, logCount + 1)
    /\ logCount' = logCount + 1
    /\ logLast' = Len(log)

LogNext == AddEntryCall /\ UNCHANGED <<attackVars, rngVars, engineVars, queryVars>>

(***************************************************************************)
(* SeededRNG.  Numbers stay within 32 bits: products are taken by Schrage  *)
(* decomposition and by repeated addition, which give the exact values the *)
(* double arithmetic of the source gives (all below 2^53).                 *)
(***************************************************************************)

Modulus == 2147483647
Multiplier == 16807
MinInt32 == (0 - 2147483647) - 1

\* ToInt32(a + b) for two 32-bit integers
WrapAdd(a, b) ==
    IF a >= 0 /\ b >= 0 /\ b > 2147483647 - a
        THEN ((a - 2147483647) - 1) + ((b - 2147483647) - 1)
    ELSE IF a < 0 /\ b < 0 /\ b < MinInt32 - a
        THEN (a + 2147483647 + 1) + (b + 2147483647 + 1)
    ELSE a + b

\* ToInt32(a - b)
WrapSub(a, b) ==
    IF b = MinInt32 THEN WrapAdd(WrapAdd(a, 2147483647), 1)
    ELSE WrapAdd(a, 0 - b)

\* hash << n
RECURSIVE ShiftLeft(_, _)
ShiftLeft(h, n) == IF n = 0 THEN h ELSE ShiftLeft(WrapAdd(h, h), n - 1)

\* the loop of hashString over the char codes of str, before Math.abs
RECURSIVE HashLoop(_, _)
HashLoop(hash, codes) ==
    IF codes = <<>> THEN hash
    ELSE HashLoop(WrapAdd(WrapSub(ShiftLeft(hash, 5), hash), Head(codes)),
                  Tail(codes))

\* hashString (Math.abs of -2^31 is outside the seeds drawn here)
hashString(codes) == Abs(HashLoop(0, codes))

\* constructor written with || : a seed of 0 is replaced by a random one
SeededRNGFalsySeed(seed, random) ==
    IF seed.kind = "string" THEN hashString(seed.codes)
    ELSE IF seed.kind = "number" /\ seed.value # 0 THEN seed.value
    ELSE random

\* constructor: a string seed is hashed, a number is taken as is, and an
\* absent seed is replaced by Math.floor(Math.random() * 2147483647)
SeededRNG(seed, random) ==
    IF seed.kind = "string" THEN hashString(seed.codes)
    ELSE IF seed.kind = "number" THEN seed.value
    ELSE random

\* (s * 16807) % 2147483647 for 0 <= s <= 2147483647
Schrage(s) ==
    LET t == Multiplier * (s % 127773) - 2836 * (s \div 127773)
    IN  IF t < 0 THEN t + Modulus ELSE t

\* the seed after next(); % keeps the sign of a negative seed
NextSeed(s) == IF s >= 0 THEN Schrage(s) ELSE 0 - Schrage(0 - s)

\* sum of two quotient-remainder pairs modulo m
AddQR(x, y, m) ==
    IF x.r >= m - y.r THEN [q |-> x.q + y.q + 1, r |-> x.r - (m - y.r)]
    ELSE [q |-> x.q + y.q, r |-> x.r + y.r]

\* quotient and remainder of a * n by m, for 0 <= a < m, by doubling
RECURSIVE MulDiv(_, _, _)
MulDiv(a, n, m) ==
    IF n = 0 THEN [q |-> 0, r |-> 0]
    ELSE LET h == MulDiv(a, n \div 2, m)
             d == AddQR(h, h, m)
         IN  IF n % 2 = 1 THEN AddQR(d, [q |-> 0, r |-> a], m) ELSE d

\* Math.floor(((s - 1) / 2147483646) * n), s the seed after next()
FloorScaled(s, n) ==
    IF s >= 1 THEN MulDiv(s - 1, n, Modulus - 1).q
    ELSE LET p == MulDiv(1 - s, n, Modulus - 1)
         IN  IF p.r > 0 THEN 0 - (p.q + 1) ELSE 0 - p.q

\* next(): the new seed and the numerator of the returned fraction
next(s) == [seed |-> NextSeed(s), value |-> NextSeed(s) - 1]

\* nextInt(min, max)
nextInt(s, min, max) ==
    [seed |-> NextSeed(s), value |-> FloorScaled(NextSeed(s), max - min + 1) + min]

\* rollDie(sides)
rollDie(s, sides) == nextInt(s, 1, sides)

\* the value of an array slot that was never set
UNDEFINED == "undefined"

\* the loop of shuffle from JS index i down to 1.  cells maps JS property
\* names to values: 0..n-1 are the elements, and a negative j (which
\* nextInt returns once the seed is not positive) names a property beside
\* them, undefined until the swap writes it.
RECURSIVE ShuffleFrom(_, _, _)
ShuffleFrom(s, cells, i) ==
    IF i < 1 THEN [seed |-> s, value |-> cells]
    ELSE LET d == nextInt(s, 0, i)
             j == d.value
         IN  ShuffleFrom(d.seed, [cells EXCEPT ![i] = cells[j], ![j] = cells[i]],
                         i - 1)

\* shuffle(array): a copy is shuffled and returned
shuffle(s, array) ==
    LET n == Len(array)
        cells == [k \in (0 - n)..(n - 1) |-> IF k >= 0 THEN array[k + 1] ELSE UNDEFINED]
        done == ShuffleFrom(s, cells, n - 1)
    IN  [seed |-> done.seed, value |-> [k \in 1..n |-> done.value[k - 1]]]

(***************************************************************************)
(* SpecRng: two generators built from one seed and driven by the same      *)
(* calls.  Each constructor call sees its own Math.random() value.         *)
(***************************************************************************)

NumberSeed(v) == [kind |-> "number", value |-> v, codes |-> <<>>]
StringSeed(c) == [kind |-> "string", value |-> 0, codes |-> c]

\* seeds a caller passes; strings by char code ("", "a", "orc", "tactical")
SeedInputs ==
    { NumberSeed(0), NumberSeed(1), NumberSeed(42), NumberSeed(0 - 7),
      NumberSeed(2147483646), NumberSeed(2147483647),
      StringSeed(<<>>), StringSeed(<<97>>), StringSeed(<<111, 114, 99>>),
      StringSeed(<<116, 97, 99, 116, 105, 99, 97, 108>>) }

\* values of Math.floor(Math.random() * 2147483647) the constructors may see
RandomSeeds == {5, 123456789}

ShuffleInputs == { <<"a", "b", "c">>, <<"a", "b", "c", "d">> }

MaxRngCalls == 4

InitRng ==
    \E seed \in SeedInputs, ra \in RandomSeeds, rb \in RandomSeeds :
        /\ genA = SeededRNG(seed, ra)
        /\ genB = SeededRNG(seed, rb)
        /\ outA = [op |-> "new", value |-> <<>>]
        /\ outB = [op |-> "new", value |-> <<>>]
        /\ rngCalls = 0

RngNextCall ==
    /\ rngCalls < MaxRngCalls
    /\ genA' = next(genA).seed
    /\ genB' = next(genB).seed
    /\ outA' = [op |-> "next", value |-> <<next(genA).value>>]
    /\ outB' = [op |-> "next", value |-> <<next(genB).value>>]
    /\ rngCalls' = rngCalls + 1

RngNextIntCall ==
    /\ rngCalls < MaxRngCalls
    /\ \E range \in {<<0, 1>>, <<1000, 9999>>, <<0 - 3, 3>>} :
        /\ genA' = nextInt(genA, range[1], range[2]).seed
        /\ genB' = nextInt(genB, range[1], range[2]).seed
        /\ outA' = [op |-> "nextInt", value |-> <<nextInt(genA, range[1], range[2]).value>>]
        /\ outB' = [op |-> "nextInt", value |-> <<nextInt(genB, range[1], range[2]).value>>]
    /\ rngCalls' = rngCalls + 1

RngRollDieCall ==
    /\ rngCalls < MaxRngCalls
    /\ \E sides \in {4, 20} :
        /\ genA' = rollDie(genA, sides).seed
        /\ genB' = rollDie(genB, sides).seed
        /\ outA' = [op |-> "rollDie", value |-> <<rollDie(genA, sides).value>>]
        /\ outB' = [op |-> "rollDie", value |-> <<rollDie(genB, sides).value>>]
    /\ rngCalls' = rngCalls + 1

RngShuffleCall ==
    /\ rngCalls < MaxRngCalls
    /\ \E array \in ShuffleInputs :
        /\ genA' = shuffle(genA, array).seed
        /\ genB' = shuffle(genB, array).seed
        /\ outA' = [op |-> "shuffle", value |-> shuffle(genA, array).value]
        /\ outB' = [op |-> "shuffle", value |-> shuffle(genB, array).value]
    /\ rngCalls' = rngCalls + 1

RngNext ==
    /\ RngNextCall \/ RngNextIntCall \/ RngRollDieCall \/ RngShuffleCall
    /\ UNCHANGED <<attackVars, logVars, engineVars, queryVars>>

(***************************************************************************)
(* Grid and pathfinding.  A position is <<x, y>>; cs is a CombatState      *)
(* record with fields characters and battlefield.                          *)
(***************************************************************************)

calculateDistance(a, b) == Abs(a[1] - b[1]) + Abs(a[2] - b[2])

\* the eight directions in the order getNeighbors tries them
Directions ==
    << <<0, 0 - 1>>, <<1, 0>>, <<0, 1>>, <<0 - 1, 0>>,
       <<0 - 1, 0 - 1>>, <<1, 0 - 1>>, <<0 - 1, 1>>, <<1, 1>> >>

InBounds(pos, battlefield) ==
    /\ pos[1] >= 0 /\ pos[1] < battlefield.width
    /\ pos[2] >= 0 /\ pos[2] < battlefield.height

\* getNeighbors restricted to the four orthogonal directions
getNeighborsOrthogonal(pos, battlefield) ==
    LET moved == [i \in 1..4 |-> <<pos[1] + Directions[i][1], pos[2] + Directions[i][2]>>]
        Inside(n) == InBounds(n, battlefield)
    IN  SelectSeq(moved, Inside)

getNeighbors(pos, battlefield) ==
    LET moved == [i \in 1..8 |-> <<pos[1] + Directions[i][1], pos[2] + Directions[i][2]>>]
        Inside(n) == InBounds(n, battlefield)
    IN  SelectSeq(moved, Inside)

\* isPositionBlocked that looks at the obstacles only
isPositionBlockedByObstacle(pos, cs, excludeCharacter) ==
    pos \in cs.battlefield.obstacles

isPositionBlocked(pos, cs, excludeCharacter) ==
    \/ pos \in cs.battlefield.obstacles
    \/ \E i \in 1..Len(cs.characters) :
          /\ cs.characters[i].id # excludeCharacter
          /\ cs.characters[i].position = pos
          /\ cs.characters[i].health.current > 0

\* Array.prototype.sort by ascending fCost: stable insertion
RECURSIVE InsertByF(_, _)
InsertByF(sorted, node) ==
    IF sorted = <<>> THEN <<node>>
    ELSE IF Head(sorted).fCost <= node.fCost
         THEN <<Head(sorted)>> \o InsertByF(Tail(sorted), node)
         ELSE <<node>> \o sorted

RECURSIVE SortByF(_)
SortByF(open) ==
    IF open = <<>> THEN <<>>
    ELSE InsertByF(SortByF(SubSeq(open, 1, Len(open) - 1)), open[Len(open)])

\* index of the open-set node at pos, 0 when there is none
OpenIndex(open, pos) ==
    IF \E i \in 1..Len(open) : open[i].position = pos
    THEN SetMin({i \in 1..Len(open) : open[i].position = pos})
    ELSE 0

\* the body of the neighbour loop for one neighbour; st = [open, parent]
VisitNeighbor(st, current, neighborPos, closed, end, cs, excludeCharacter) ==
    IF neighborPos \in closed THEN st
    ELSE IF isPositionBlocked(neighborPos, cs, excludeCharacter) /\ neighborPos # end
    THEN st
    ELSE LET tentativeGCost == current.gCost + 1
             k == OpenIndex(st.open, neighborPos)
         IN  IF k # 0 /\ tentativeGCost >= st.open[k].gCost THEN st
             ELSE IF k # 0
             THEN [open |-> [st.open EXCEPT ![k].gCost = tentativeGCost,
                                            ![k].fCost = tentativeGCost + st.open[k].hCost],
                   parent |-> [st.parent EXCEPT ![neighborPos] = current.position]]
             ELSE [open |-> Append(st.open,
                                   [position |-> neighborPos, gCost |-> tentativeGCost,
                                    hCost |-> calculateDistance(neighborPos, end),
                                    fCost |-> tentativeGCost + calculateDistance(neighborPos, end)]),
                   parent |-> (neighborPos :> current.position) @@ st.parent]

RECURSIVE VisitNeighbors(_, _, _, _, _, _, _)
VisitNeighbors(st, current, neighbors, closed, end, cs, excludeCharacter) ==
    IF neighbors = <<>> THEN st
    ELSE VisitNeighbors(
             VisitNeighbor(st, current, Head(neighbors), closed, end, cs, excludeCharacter),
             current, Tail(neighbors), closed, end, cs, excludeCharacter)

\* the path read back through the parent links, start first
RECURSIVE PathTo(_, _)
PathTo(pos, parent) ==
    IF pos \in DOMAIN parent THEN Append(PathTo(parent[pos], parent), pos)
    ELSE <<pos>>

NoPath == <<>>

\* the while loop of findPath; NoPath stands for null
RECURSIVE SearchLoop(_, _, _, _, _, _)
SearchLoop(open, closed, parent, end, cs, excludeCharacter) ==
    IF open = <<>> THEN NoPath
    ELSE LET sorted == SortByF(open)
             current == Head(sorted)
             closed2 == closed \cup {current.position}
         IN  IF current.position = end THEN PathTo(end, parent)
             ELSE LET st == VisitNeighbors([open |-> Tail(sorted), parent |-> parent],
                                           current,
                                           getNeighbors(current.position, cs.battlefield),
                                           closed2, end, cs, excludeCharacter)
                  IN  SearchLoop(st.open, closed2, st.parent, end, cs, excludeCharacter)

findPath(start, end, cs, excludeCharacter) ==
    SearchLoop(<<[position |-> start, gCost |-> 0,
                  hCost |-> calculateDistance(start, end),
                  fCost |-> calculateDistance(start, end)]>>,
               {}, <<>>, end, cs, excludeCharacter)

(***************************************************************************)
(* CombatEngine.  The engine works on the CombatState record cs; every     *)
(* operation is a function from cs (and what the generators return) to     *)
(* [cs, value, emitted]: the new state, the return value and the log       *)
(* entries appended.  Return values are written as strings.                *)
(***************************************************************************)

LogEntry(type, characterId) == [type |-> type, characterId |-> characterId]

logRoundStart == LogEntry("round", "")
logTurnStart(character) == LogEntry("turn", character.id)
\* an entry with a details object
DetailedEntry(type, characterId, details) ==
    [type |-> type, characterId |-> characterId, details |-> details]

logMovement(character, fromPosition, toPosition) ==
    DetailedEntry("move", character.id,
                  [fromPosition |-> fromPosition, toPosition |-> toPosition])

\* a hit is logged with its damage, a miss with the target's armor class
logAttack(attacker, target, attackRoll, hit, damage) ==
    IF hit
    THEN DetailedEntry("attack", attacker.id,
                       [targetId |-> target.id, damage |-> damage,
                        attackRoll |-> attackRoll])
    ELSE DetailedEntry("attack", attacker.id,
                       [targetId |-> target.id, attackRoll |-> attackRoll,
                        targetAC |-> target.armorClass])

logDamage(character, damage) ==
    DetailedEntry("damage", character.id, [damage |-> damage])
logDeath(character) == LogEntry("status", character.id)

\* keys of the SPELLS table
SpellKeys ==
    {"firebolt", "magicMissile", "healingWord", "cureWounds", "shield",
     "burningHands", "holdPerson", "fireball", "lightningBolt", "bless",
     "spiritualWeapon", "web", "mistyStep", "counterspell", "haste"}

\* logSpellCast: nothing is logged when SPELLS has no such key
logSpellCast(caster, spellId) ==
    IF spellId \in SpellKeys THEN <<LogEntry("spell", caster.id)>> ELSE <<>>

\* Array.prototype.indexOf / findIndex on ids: 0-based, -1 when absent
IndexOf(ids, id) ==
    IF \E i \in 1..Len(ids) : ids[i] = id
    THEN SetMin({i \in 1..Len(ids) : ids[i] = id}) - 1
    ELSE 0 - 1

\* ids[i] for a 0-based i; undefined outside the array
ElementAt(ids, i) == IF i >= 0 /\ i < Len(ids) THEN ids[i + 1] ELSE UNDEFINED

CharacterIds(cs) == [i \in 1..Len(cs.characters) |-> cs.characters[i].id]

\* getCharacterById as a 1-based position in cs.characters; 0 stands for null
getCharacterById(cs, id) == IndexOf(CharacterIds(cs), id) + 1

getCurrentCharacter(cs) == getCharacterById(cs, cs.currentCharacterId)

\* insertion that puts a character before the ones it ties with
RECURSIVE InsertBeforeTies(_, _)
InsertBeforeTies(sorted, character) ==
    IF sorted = <<>> THEN <<character>>
    ELSE IF Head(sorted).initiative > character.initiative
         THEN <<Head(sorted)>> \o InsertBeforeTies(Tail(sorted), character)
         ELSE <<character>> \o sorted

\* characters.sort((a, b) => b.initiative - a.initiative): stable, descending
RECURSIVE InsertByInitiative(_, _)
InsertByInitiative(sorted, character) ==
    IF sorted = <<>> THEN <<character>>
    ELSE IF Head(sorted).initiative >= character.initiative
         THEN <<Head(sorted)>> \o InsertByInitiative(Tail(sorted), character)
         ELSE <<character>> \o sorted

RECURSIVE SortByInitiative(_)
SortByInitiative(characters) ==
    IF characters = <<>> THEN <<>>
    ELSE InsertByInitiative(SortByInitiative(SubSeq(characters, 1, Len(characters) - 1)),
                            characters[Len(characters)])

\* initializeCombat; d20s[i] is what rollDie(20) returns for characters[i]
initializeCombat(cs, d20s) ==
    LET rolled == [i \in 1..Len(cs.characters) |->
                     [cs.characters[i] EXCEPT
                        !.initiative = d20s[i] + ((cs.characters[i].dexterity - 10) \div 2)]]
        sorted == SortByInitiative(rolled)
        order == [i \in 1..Len(sorted) |-> sorted[i].id]
        cs2 == [cs EXCEPT !.characters = sorted,
                          !.initiativeOrder = order,
                          !.currentCharacterId = ElementAt(order, 0),
                          !.combatLog = <<>>]
        current == getCurrentCharacter(cs2)
    IN  [cs |-> cs2, value |-> "void",
         emitted |-> <<logRoundStart, logTurnStart(cs2.characters[current])>>]

\* the index after the current one, taken without the modulo
NextIndexNoWrap(currentIndex, length) == currentIndex + 1

\* the index endTurn advances to
NextIndex(currentIndex, length) == (currentIndex + 1) % length

\* a round that starts at every endTurn
StartsRoundAlways(nextIndex) == TRUE

\* endTurn starts a new round when it wraps to the first entry
StartsRound(nextIndex) == nextIndex = 0

\* the reset of endTurn applied to every character
ResetEveryone(characters, current) ==
    [i \in 1..Len(characters) |->
        [characters[i] EXCEPT !.hasUsedAction = FALSE, !.hasUsedBonusAction = FALSE,
                              !.hasUsedReaction = FALSE, !.movementUsed = 0]]

\* the outgoing actor's per-turn flags back to their neutral values
ResetTurnFlags(characters, current) ==
    [characters EXCEPT ![current].hasUsedAction = FALSE,
                       ![current].hasUsedBonusAction = FALSE,
                       ![current].hasUsedReaction = FALSE,
                       ![current].movementUsed = 0]

endTurn(cs) ==
    LET current == getCurrentCharacter(cs)
        reset == IF current = 0 THEN cs.characters
                 ELSE ResetTurnFlags(cs.characters, current)
        currentIndex == IndexOf(cs.initiativeOrder, cs.currentCharacterId)
        nextIndex == NextIndex(currentIndex, Len(cs.initiativeOrder))
        cs2 == [cs EXCEPT !.characters = reset,
                          !.currentCharacterId = ElementAt(cs.initiativeOrder, nextIndex),
                          !.turn = cs.turn + 1,
                          !.round = IF StartsRound(nextIndex) THEN cs.round + 1 ELSE cs.round]
        nextCharacter == getCurrentCharacter(cs2)
    IN  [cs |-> cs2, value |-> "void",
         emitted |-> (IF StartsRound(nextIndex) THEN <<logRoundStart>> ELSE <<>>)
                     \o (IF nextCharacter = 0 THEN <<>>
                         ELSE <<logTurnStart(cs2.characters[nextCharacter])>>)]

IsAlive(c) == c.health.current > 0

alivePlayers(cs) ==
    {i \in 1..Len(cs.characters) :
        cs.characters[i].type \in {"player", "companion"} /\ IsAlive(cs.characters[i])}

aliveEnemies(cs) ==
    {i \in 1..Len(cs.characters) :
        cs.characters[i].type = "enemy" /\ IsAlive(cs.characters[i])}

\* checkCombatEnd with the enemy side tested first
checkCombatEndEnemiesFirst(cs) ==
    IF aliveEnemies(cs) = {}
    THEN [cs |-> [cs EXCEPT !.victor = "players", !.isActive = FALSE],
          value |-> "players", emitted |-> <<>>]
    ELSE IF alivePlayers(cs) = {}
    THEN [cs |-> [cs EXCEPT !.victor = "enemies", !.isActive = FALSE],
          value |-> "enemies", emitted |-> <<>>]
    ELSE [cs |-> cs, value |-> "null", emitted |-> <<>>]

checkCombatEnd(cs) ==
    IF alivePlayers(cs) = {}
    THEN [cs |-> [cs EXCEPT !.victor = "enemies", !.isActive = FALSE],
          value |-> "enemies", emitted |-> <<>>]
    ELSE IF aliveEnemies(cs) = {}
    THEN [cs |-> [cs EXCEPT !.victor = "players", !.isActive = FALSE],
          value |-> "players", emitted |-> <<>>]
    ELSE [cs |-> cs, value |-> "null", emitted |-> <<>>]

(***************************************************************************)
(* processAction.  An action is [type, characterId, target, weaponId,      *)
(* spellId]; a target is NoTarget, a position or a character id; a missing *)
(* weaponId or spellId is NONE.  rnd holds what the generators return      *)
(* during the call: d20, faces1, faces2 for rollAttack and random, the     *)
(* value of Math.floor(Math.random() * n), for spell damage.               *)
(***************************************************************************)

NoTarget == [kind |-> "none", position |-> <<0, 0>>, id |-> ""]
PositionTarget(pos) == [kind |-> "position", position |-> pos, id |-> ""]
IdTarget(id) == [kind |-> "id", position |-> <<0, 0>>, id |-> id]

Failure(cs) == [cs |-> cs, value |-> "false", emitted |-> <<>>]

\* movement charged by the longer of the two axis distances
MovementCostChebyshev(oldPosition, target) ==
    Max(Abs(oldPosition[1] - target[1]), Abs(oldPosition[2] - target[2])) * 5

\* distance * 5, distance = |dx| + |dy| (each square = 5 feet)
MovementCost(oldPosition, target) ==
    (Abs(oldPosition[1] - target[1]) + Abs(oldPosition[2] - target[2])) * 5

processMovement(cs, ci, action) ==
    IF action.target.kind # "position" THEN Failure(cs)
    ELSE LET oldPosition == cs.characters[ci].position
             moved == [cs.characters[ci] EXCEPT
                          !.position = action.target.position,
                          !.movementUsed = @ + MovementCost(oldPosition,
                                                            action.target.position)]
         IN  [cs |-> [cs EXCEPT !.characters[ci] = moved], value |-> "true",
              emitted |-> <<logMovement(moved, oldPosition, action.target.position)>>]

\* the subtraction without the floor at 0
ApplyDamageUnfloored(characters, ti, damage) ==
    [characters EXCEPT ![ti].health.current = @ - damage]

\* target.health.current = Math.max(0, target.health.current - damage)
ApplyDamage(characters, ti, damage) ==
    [characters EXCEPT ![ti].health.current = Max(0, @ - damage)]

\* the damage entry alone
DamageEntryOnly(target, damage) == <<logDamage(target, damage)>>

\* the damage entry and, at 0 hit points, the death entry
DamageEntries(target, damage) ==
    <<logDamage(target, damage)>>
    \o (IF target.health.current = 0 THEN <<logDeath(target)>> ELSE <<>>)

\* processAttack from the logAttack call on, given what rollAttack returned
AttackResolved(cs, ci, ti, used, attackResult) ==
    LET after == IF attackResult.hit
                 THEN ApplyDamage(used, ti, attackResult.damage)
                 ELSE used
    IN  [cs |-> [cs EXCEPT !.characters = after], value |-> "true",
         emitted |-> <<logAttack(used[ci], used[ti], attackResult.attackRoll,
                                 attackResult.hit, attackResult.damage)>>
                     \o (IF attackResult.hit
                         THEN DamageEntries(after[ti], attackResult.damage)
                         ELSE <<>>)]

processAttack(cs, ci, action, rnd) ==
    IF action.target.kind # "id" \/ action.target.id = "" THEN Failure(cs)
    ELSE LET ti == getCharacterById(cs, action.target.id)
             used == [cs.characters EXCEPT ![ci].hasUsedAction = TRUE]
         IN  IF ti = 0 THEN Failure(cs)
             ELSE AttackResolved(cs, ci, ti, used,
                                 rollAttack(used[ci], used[ti].armorClass,
                                            action.weaponId,
                                            rnd.d20, rnd.faces1, rnd.faces2))

processSpell(cs, ci, action, rnd) ==
    IF action.spellId = NONE \/ action.spellId = "" THEN Failure(cs)
    ELSE LET used == [cs.characters EXCEPT ![ci].hasUsedAction = TRUE]
             ti == IF action.target.kind = "id" /\ action.target.id # ""
                   THEN getCharacterById(cs, action.target.id)
                   ELSE 0
             damage == IF action.spellId = "magic_missile" THEN 3 + rnd.random + 1
                       ELSE IF action.spellId = "firebolt" THEN rnd.random + 1
                       ELSE 0
             damaging == action.spellId \in {"magic_missile", "firebolt"} /\ ti # 0
             after == IF damaging THEN ApplyDamage(used, ti, damage) ELSE used
         IN  [cs |-> [cs EXCEPT !.characters = after], value |-> "true",
              emitted |-> logSpellCast(used[ci], action.spellId)
                          \o (IF damaging THEN DamageEntries(after[ti], damage)
                              ELSE <<>>)]

processDash(cs, ci) ==
    [cs |-> [cs EXCEPT !.characters[ci].hasUsedAction = TRUE,
                       !.characters[ci].speed = @ * 2],
     value |-> "true", emitted |-> <<>>]

processDodge(cs, ci) ==
    [cs |-> [cs EXCEPT !.characters[ci].hasUsedAction = TRUE,
                       !.characters[ci].statusEffects = Append(@, "dodge")],
     value |-> "true", emitted |-> <<>>]

processAction(cs, action, rnd) ==
    LET ci == getCharacterById(cs, action.characterId)
    IN  IF ci = 0 THEN Failure(cs)
        ELSE CASE action.type = "move" -> processMovement(cs, ci, action)
               [] action.type = "attack" -> processAttack(cs, ci, action, rnd)
               [] action.type = "spell" -> processSpell(cs, ci, action, rnd)
               [] action.type = "dash" -> processDash(cs, ci)
               [] action.type = "dodge" -> processDodge(cs, ci)
               [] OTHER -> Failure(cs)

(***************************************************************************)
(* EnemyAI: the policies that propose an action.  NoAction stands for null.*)
(***************************************************************************)

NoAction ==
    [type |-> "null", characterId |-> "", target |-> NoTarget,
     weaponId |-> NONE, spellId |-> NONE]

\* getEnemyTargets without the health filter
getEnemyTargetsAnyHealth(cs, ci) ==
    LET IsTarget(i) == /\ cs.characters[i].type # cs.characters[ci].type
                       /\ cs.characters[i].id # cs.characters[ci].id
    IN  SelectSeq([i \in 1..Len(cs.characters) |-> i], IsTarget)

\* positions in cs.characters of the living characters of another type
getEnemyTargets(cs, ci) ==
    LET IsTarget(i) == /\ cs.characters[i].type # cs.characters[ci].type
                       /\ IsAlive(cs.characters[i])
                       /\ cs.characters[i].id # cs.characters[ci].id
    IN  SelectSeq([i \in 1..Len(cs.characters) |-> i], IsTarget)

\* targets.reduce(...) that lets a later target at the same distance win
RECURSIVE ClosestFromLastWins(_, _, _, _)
ClosestFromLastWins(cs, ci, closest, targets) ==
    IF targets = <<>> THEN closest
    ELSE LET distToCurrent == calculateDistance(cs.characters[ci].position,
                                                cs.characters[Head(targets)].position)
             distToClosest == calculateDistance(cs.characters[ci].position,
                                                cs.characters[closest].position)
         IN  ClosestFromLastWins(cs, ci,
                                 IF distToCurrent <= distToClosest THEN Head(targets)
                                 ELSE closest,
                                 Tail(targets))

\* targets.reduce(...): the first target at the least distance
RECURSIVE ClosestFrom(_, _, _, _)
ClosestFrom(cs, ci, closest, targets) ==
    IF targets = <<>> THEN closest
    ELSE LET distToCurrent == calculateDistance(cs.characters[ci].position,
                                                cs.characters[Head(targets)].position)
             distToClosest == calculateDistance(cs.characters[ci].position,
                                                cs.characters[closest].position)
         IN  ClosestFrom(cs, ci,
                         IF distToCurrent < distToClosest THEN Head(targets) ELSE closest,
                         Tail(targets))

getClosestTarget(cs, ci, targets) == ClosestFrom(cs, ci, Head(targets), Tail(targets))

\* weaponId is NONE when the caller passes none
createAttackAction(cs, ci, ti, weaponId) ==
    [type |-> "attack", characterId |-> cs.characters[ci].id,
     target |-> IdTarget(cs.characters[ti].id),
     weaponId |-> IF weaponId # NONE THEN weaponId ELSE cs.characters[ci].mainHand,
     spellId |-> NONE]

\* the move along path the aggressive and default policies propose
MoveAlong(cs, ci, path) ==
    LET character == cs.characters[ci]
        maxMovement == (character.speed - character.movementUsed) \div 5
        index == Min(maxMovement, Len(path) - 1)
    IN  [type |-> "move", characterId |-> character.id,
         target |-> IF index >= 0 THEN PositionTarget(path[index + 1]) ELSE NoTarget,
         weaponId |-> NONE, spellId |-> NONE]

\* if (path && path.length > 1): move along it, else null
FollowPath(cs, ci, path) ==
    IF path # NoPath /\ Len(path) > 1 THEN MoveAlong(cs, ci, path) ELSE NoAction

\* generateDefaultAction
generateDefaultAction(cs, ci) ==
    LET targets == getEnemyTargets(cs, ci)
    IN  IF targets = <<>> THEN NoAction
        ELSE LET closestTarget == getClosestTarget(cs, ci, targets)
                 distanceToTarget == calculateDistance(cs.characters[ci].position,
                                                       cs.characters[closestTarget].position)
             IN  IF distanceToTarget <= 1
                 THEN createAttackAction(cs, ci, closestTarget, NONE)
                 ELSE FollowPath(cs, ci, findPath(cs.characters[ci].position,
                                                  cs.characters[closestTarget].position,
                                                  cs, cs.characters[ci].id))

\* generateAggressiveAction: the statements of generateDefaultAction with
\* the closest-target reduction written in line
generateAggressiveAction(cs, ci) == generateDefaultAction(cs, ci)

\* id of the ranged weapon in the main hand, NONE for null
getRangedWeapon(cs, ci) ==
    LET mainHand == cs.characters[ci].mainHand
    IN  IF mainHand # NONE /\ getWeaponById(mainHand).category = "ranged"
        THEN mainHand ELSE NONE

\* the cells of the board within range of center, x outermost
getPositionsInRange(center, range, cs) ==
    LET xs == Max(0, center[1] - range)..Min(cs.battlefield.width - 1, center[1] + range)
        ys == Max(0, center[2] - range)..Min(cs.battlefield.height - 1, center[2] + range)
        ny == Cardinality(ys)
        cells == [k \in 1..(Cardinality(xs) * ny) |->
                    <<Max(0, center[1] - range) + ((k - 1) \div ny),
                      Max(0, center[2] - range) + ((k - 1) % ny)>>]
        InRange(pos) == calculateDistance(center, pos) <= range
    IN  SelectSeq(cells, InRange)

\* the loop of hasLineOfSight with the obstacle test made for every cell
RECURSIVE LineOfSightFromEveryCell(_, _, _, _, _, _)
LineOfSightFromEveryCell(x, y, err, start, end, cs) ==
    IF <<x, y>> \in cs.battlefield.obstacles
    THEN FALSE
    ELSE IF <<x, y>> = end THEN TRUE
    ELSE LET dx == Abs(end[1] - start[1])
             dy == Abs(end[2] - start[2])
             sx == IF start[1] < end[1] THEN 1 ELSE 0 - 1
             sy == IF start[2] < end[2] THEN 1 ELSE 0 - 1
             e2 == 2 * err
             stepX == e2 > 0 - dy
             stepY == e2 < dx
         IN  LineOfSightFromEveryCell(IF stepX THEN x + sx ELSE x,
                                      IF stepY THEN y + sy ELSE y,
                                      err - (IF stepX THEN dy ELSE 0)
                                          + (IF stepY THEN dx ELSE 0),
                                      start, end, cs)

\* the loop of hasLineOfSight from cell <<x, y>> with error term err
RECURSIVE LineOfSightFrom(_, _, _, _, _, _)
LineOfSightFrom(x, y, err, start, end, cs) ==
    IF <<x, y>> # start /\ <<x, y>> # end /\ <<x, y>> \in cs.battlefield.obstacles
    THEN FALSE
    ELSE IF <<x, y>> = end THEN TRUE
    ELSE LET dx == Abs(end[1] - start[1])
             dy == Abs(end[2] - start[2])
             sx == IF start[1] < end[1] THEN 1 ELSE 0 - 1
             sy == IF start[2] < end[2] THEN 1 ELSE 0 - 1
             e2 == 2 * err
             stepX == e2 > 0 - dy
             stepY == e2 < dx
         IN  LineOfSightFrom(IF stepX THEN x + sx ELSE x,
                             IF stepY THEN y + sy ELSE y,
                             err - (IF stepX THEN dy ELSE 0) + (IF stepY THEN dx ELSE 0),
                             start, end, cs)

hasLineOfSight(start, end, cs) ==
    LineOfSightFrom(start[1], start[2],
                    Abs(end[1] - start[1]) - Abs(end[2] - start[2]), start, end, cs)

isPositionOccupied(cs, pos) ==
    \E i \in 1..Len(cs.characters) :
        cs.characters[i].position = pos /\ IsAlive(cs.characters[i])

\* stable sort of cells by key[cell], ascending
RECURSIVE InsertByKey(_, _, _)
InsertByKey(sorted, cell, key) ==
    IF sorted = <<>> THEN <<cell>>
    ELSE IF key[Head(sorted)] <= key[cell]
         THEN <<Head(sorted)>> \o InsertByKey(Tail(sorted), cell, key)
         ELSE <<cell>> \o sorted

RECURSIVE SortByKey(_, _)
SortByKey(cells, key) ==
    IF cells = <<>> THEN <<>>
    ELSE InsertByKey(SortByKey(SubSeq(cells, 1, Len(cells) - 1), key), cells[Len(cells)], key)

\* the cells of the board
BoardCells(cs) == (0..(cs.battlefield.width - 1)) \X (0..(cs.battlefield.height - 1))

\* cells[0] || null, with NoTarget for null
FirstOrNone(cells) == IF cells = <<>> THEN NoTarget ELSE PositionTarget(cells[1])

findRetreatPosition(cs, ci, threat) ==
    LET Free(pos) == ~isPositionOccupied(cs, pos)
        nearness == [pos \in BoardCells(cs) |->
                        0 - calculateDistance(pos, cs.characters[threat].position)]
    IN  FirstOrNone(SortByKey(
            SelectSeq(getPositionsInRange(cs.characters[ci].position, 2, cs), Free),
            nearness))

findOptimalRangedPosition(cs, ci, target) ==
    LET rangedWeapon == getRangedWeapon(cs, ci)
        maxRange == getWeaponById(rangedWeapon).rangeNormal \div 5
        Free(pos) == ~isPositionOccupied(cs, pos)
        Distance(pos) == calculateDistance(pos, cs.characters[target].position)
        AtRange(pos) == Distance(pos) >= 3 /\ Distance(pos) <= maxRange
        Sees(pos) == hasLineOfSight(pos, cs.characters[target].position, cs)
    IN  IF rangedWeapon = NONE THEN NoTarget
        ELSE FirstOrNone(SortByKey(
                 SelectSeq(SelectSeq(SelectSeq(
                     getPositionsInRange(cs.characters[ci].position, 3, cs),
                     Free), AtRange), Sees),
                 [pos \in BoardCells(cs) |-> Distance(pos)]))

\* the last step of generateArcherAction: move toward a better position
ArcherReposition(cs, ci, closestTarget) ==
    LET optimalPosition == findOptimalRangedPosition(cs, ci, closestTarget)
    IN  IF optimalPosition = NoTarget THEN NoAction
        ELSE FollowPath(cs, ci, findPath(cs.characters[ci].position,
                                         optimalPosition.position,
                                         cs, cs.characters[ci].id))

\* distanceToTarget <= weaponRange with no range test at all
InWeaponRangeAlways(distanceToTarget, rangedWeapon) == TRUE

\* distanceToTarget <= rangedWeapon.range.normal / 5
InWeaponRange(distanceToTarget, rangedWeapon) ==
    distanceToTarget * 5 <= getWeaponById(rangedWeapon).rangeNormal

generateArcherAction(cs, ci) ==
    LET character == cs.characters[ci]
        targets == getEnemyTargets(cs, ci)
        rangedWeapon == getRangedWeapon(cs, ci)
        closestTarget == getClosestTarget(cs, ci, targets)
        distanceToTarget == calculateDistance(character.position,
                                              cs.characters[closestTarget].position)
        retreatPosition == IF distanceToTarget <= 3 /\ character.movementUsed < character.speed
                           THEN findRetreatPosition(cs, ci, closestTarget)
                           ELSE NoTarget
    IN  IF targets = <<>> THEN NoAction
        ELSE IF retreatPosition # NoTarget
        THEN [type |-> "move", characterId |-> character.id, target |-> retreatPosition,
              weaponId |-> NONE, spellId |-> NONE]
        ELSE IF /\ rangedWeapon # NONE
                /\ hasLineOfSight(character.position,
                                  cs.characters[closestTarget].position, cs)
                /\ InWeaponRange(distanceToTarget, rangedWeapon)
        THEN createAttackAction(cs, ci, closestTarget, rangedWeapon)
        ELSE ArcherReposition(cs, ci, closestTarget)

\* trySpellAction that does not look at the spell slots
trySpellActionAnySlot(cs, ci, targets, choice) ==
    LET character == cs.characters[ci]
        Damages(spell) == spell.damage
        damageSpells == SelectSeq(character.spells, Damages)
    IN  IF damageSpells = <<>> THEN NoAction
        ELSE [type |-> "spell", characterId |-> character.id,
              target |-> IdTarget(cs.characters[getClosestTarget(cs, ci, targets)].id),
              weaponId |-> NONE, spellId |-> damageSpells[1].id]

\* trySpellAction; choice is what globalRNG.nextInt returns inside choice()
trySpellAction(cs, ci, targets, choice) ==
    LET character == cs.characters[ci]
        HasSlot(spell) ==
            /\ spell.level \in DOMAIN character.resources.spellSlots
            /\ character.resources.spellSlots[spell.level].current > 0
        Damages(spell) == spell.damage
        damageSpells == SelectSeq(SelectSeq(character.spells, HasSlot), Damages)
    IN  IF damageSpells = <<>> THEN NoAction
        ELSE [type |-> "spell", characterId |-> character.id,
              target |-> IdTarget(cs.characters[getClosestTarget(cs, ci, targets)].id),
              weaponId |-> NONE, spellId |-> damageSpells[choice + 1].id]

generateCasterAction(cs, ci, choice) ==
    LET targets == getEnemyTargets(cs, ci)
        spellAction == trySpellAction(cs, ci, targets, choice)
    IN  IF targets = <<>> THEN NoAction
        ELSE IF spellAction # NoAction THEN spellAction
        ELSE generateArcherAction(cs, ci)

\* generateAction; a character without aiBehavior has personality NONE
generateAction(cs, ci, choice) ==
    LET personality == cs.characters[ci].aiBehavior
    IN  CASE personality = "aggressive" -> generateAggressiveAction(cs, ci)
          [] personality = "archer" -> generateArcherAction(cs, ci)
          [] personality = "caster" -> generateCasterAction(cs, ci, choice)
          [] OTHER -> generateDefaultAction(cs, ci)

\* processAITurn once the policy has proposed action
ActionProposed(cs, action, rnd) ==
    IF action = NoAction
    THEN [cs |-> cs, value |-> "null", emitted |-> <<>>]
    ELSE [cs |-> processAction(cs, action, rnd).cs, value |-> action.type,
          emitted |-> processAction(cs, action, rnd).emitted]

processAITurn(cs, rnd) ==
    LET current == getCurrentCharacter(cs)
    IN  IF current = 0 THEN [cs |-> cs, value |-> "null", emitted |-> <<>>]
        ELSE IF cs.characters[current].type # "enemy"
        THEN [cs |-> cs, value |-> "null", emitted |-> <<>>]
        ELSE ActionProposed(cs, generateAction(cs, current, rnd.choice), rnd)

(***************************************************************************)
(* Spec: one engine over a three-character encounter on a small board.     *)
(***************************************************************************)

Battlefield == [width |-> 3, height |-> 2, obstacles |-> {<<1, 0>>}]

NewCharacter(id, type, position, hp, ac, str, dex, weaponId, personality) ==
    [id |-> id, type |-> type, position |-> position,
     health |-> [current |-> hp, maximum |-> hp],
     armorClass |-> ac, strength |-> str, dexterity |-> dex, level |-> 1,
     speed |-> 5, movementUsed |-> 0,
     hasUsedAction |-> FALSE, hasUsedBonusAction |-> FALSE, hasUsedReaction |-> FALSE,
     statusEffects |-> <<>>, initiative |-> 0,
     mainHand |-> weaponId, aiBehavior |-> personality, spells |-> <<>>,
     resources |-> [spellSlots |-> <<[current |-> 2, maximum |-> 2]>>]]

Roster ==
    << NewCharacter("hero", "player", <<0, 0>>, 4, 15, 16, 14, "longsword", NONE),
       NewCharacter("ally", "companion", <<0, 1>>, 1, 10, 16, 10, "dagger", NONE),
       NewCharacter("orc", "enemy", <<2, 0>>, 5, 13, 16, 8, "longsword", "aggressive") >>

\* the state a caller hands to the constructor
NewCombatState ==
    [round |-> 1, turn |-> 1, characters |-> Roster,
     initiativeOrder |-> <<>>, currentCharacterId |-> "",
     combatLog |-> <<>>, battlefield |-> Battlefield,
     isActive |-> TRUE, victor |-> UNDEFINED]

BaseSpeed(id) == Roster[IndexOf([i \in 1..Len(Roster) |-> Roster[i].id], id) + 1].speed

MaxTurn == 5
MaxSpeed == 10
MaxEffects == 1
MaxMovementUsed == 10

\* the bounds on the counters the engine never bounds itself
WithinBounds(cs) ==
    /\ cs.turn <= MaxTurn
    /\ \A i \in 1..Len(cs.characters) :
          /\ cs.characters[i].speed <= MaxSpeed
          /\ Len(cs.characters[i].statusEffects) <= MaxEffects
          /\ cs.characters[i].movementUsed <= MaxMovementUsed

\* d20 faces for the initiative of hero, ally and orc: a reordering and a tie
InitiativeRolls == { <<5, 12, 18>>, <<3, 5, 6>> }

Action(type, characterId, target, weaponId, spellId) ==
    [type |-> type, characterId |-> characterId, target |-> target,
     weaponId |-> weaponId, spellId |-> spellId]

TargetIds == {"hero", "ally", "orc", "ghost"}
MovePositions == {<<1, 1>>}

\* the actions a caller submits for the character whose turn it is, and
\* the ones that name nobody, nothing or the wrong kind of target
MoveInputs(c) ==
    {Action("move", c, PositionTarget(p), NONE, NONE) : p \in MovePositions}
    \cup {Action("move", c, NoTarget, NONE, NONE),
          Action("move", c, IdTarget("orc"), NONE, NONE),
          Action("move", "ghost", PositionTarget(<<1, 1>>), NONE, NONE)}

AttackInputs(c) ==
    {Action("attack", c, IdTarget(t), "longsword", NONE) : t \in TargetIds}
    \cup {Action("attack", c, NoTarget, "longsword", NONE),
          Action("attack", c, PositionTarget(<<2, 0>>), "longsword", NONE),
          Action("attack", "ghost", IdTarget("orc"), "longsword", NONE)}

SpellInputs(c) ==
    {Action("spell", c, t, NONE, "firebolt") :
        t \in {NoTarget, IdTarget("orc"), IdTarget("ghost"), PositionTarget(<<2, 0>>)}}
    \cup {Action("spell", c, t, NONE, "magic_missile") :
             t \in {IdTarget("orc"), IdTarget("ghost")}}
    \cup {Action("spell", c, NoTarget, NONE, "shield"),
          Action("spell", c, IdTarget("orc"), NONE, NONE),
          Action("spell", "ghost", IdTarget("orc"), NONE, "firebolt")}

\* hero dashes and ally dodges on their own turns
OtherInputs(c) ==
    {Action("dash", a, NoTarget, NONE, NONE) : a \in ({c} \cap {"hero"}) \cup {"ghost"}}
    \cup {Action("dodge", a, NoTarget, NONE, NONE) : a \in ({c} \cap {"ally"}) \cup {"ghost"}}
    \cup {Action("ready", c, NoTarget, NONE, NONE)}

ActionInputs(cs) ==
    LET c == cs.currentCharacterId
    IN  MoveInputs(c) \cup AttackInputs(c) \cup SpellInputs(c) \cup OtherInputs(c)

NoRandom == [d20 |-> 1, faces1 |-> <<1>>, faces2 |-> <<1>>, random |-> 0, choice |-> 0]

\* a miss, a hit and a natural 20, with the lowest and the highest face of
\* the weapon's damage die
AttackRandoms(weaponId) ==
    LET sides == DiceMatch(DamageDice(getWeaponById(weaponId))).sides
    IN  {NoRandom}
        \cup {[NoRandom EXCEPT !.d20 = d, !.faces1 = <<f>>, !.faces2 = <<f>>] :
                 d \in {11, 20}, f \in {1, sides}}

\* two values of Math.floor(Math.random() * n)
SpellRandoms(spellId) ==
    {[NoRandom EXCEPT !.random = r] :
        r \in IF spellId = "magic_missile" THEN {0, 3} ELSE {3, 9}}

\* what the generators can return during processAction(cs, action): rolls
\* are made only once the actor and the target have been found
RandomsFor(cs, action) ==
    IF getCharacterById(cs, action.characterId) = 0 THEN {NoRandom}
    ELSE IF action.target.kind # "id" THEN {NoRandom}
    ELSE IF getCharacterById(cs, action.target.id) = 0 THEN {NoRandom}
    ELSE IF action.type = "attack" THEN AttackRandoms(action.weaponId)
    ELSE IF action.type = "spell" /\ action.spellId \in {"magic_missile", "firebolt"}
    THEN SpellRandoms(action.spellId)
    ELSE {NoRandom}

\* the values choice() can draw in trySpellAction
SpellChoices(cs, ci) ==
    LET character == cs.characters[ci]
        Usable(spell) ==
            /\ spell.damage
            /\ spell.level \in DOMAIN character.resources.spellSlots
            /\ character.resources.spellSlots[spell.level].current > 0
        n == Len(SelectSeq(character.spells, Usable))
    IN  IF character.aiBehavior = "caster" /\ n > 0 THEN 0..(n - 1) ELSE {0}

\* what the generators can return during processAITurn
AITurnRandoms(cs) ==
    LET current == getCurrentCharacter(cs)
    IN  IF current = 0 THEN {NoRandom}
        ELSE IF cs.characters[current].type # "enemy" THEN {NoRandom}
        ELSE UNION {{[rnd EXCEPT !.choice = k] :
                        rnd \in RandomsFor(cs, generateAction(cs, current, k))} :
                    k \in SpellChoices(cs, current)}

Snapshot(cs) == [id |-> cs.currentCharacterId, turn |-> cs.turn, round |-> cs.round]

Started == combatState.initiativeOrder # <<>>

InitEngine ==
    /\ combatState = NewCombatState
    /\ turnHistory = <<>>

IdleEngine ==
    /\ combatState = <<>>
    /\ turnHistory = <<>>

\* the engine call leaves result.cs behind
Returned(result) ==
    /\ WithinBounds(result.cs)
    /\ combatState' = result.cs
    /\ UNCHANGED <<attackVars, logVars, rngVars, queryVars>>

InitializeCombatCall ==
    /\ ~Started
    /\ \E d20s \in InitiativeRolls :
          LET result == initializeCombat(combatState, d20s)
          IN  /\ Returned(result)
              /\ turnHistory' = <<Snapshot(result.cs)>>

ProcessActionCall ==
    /\ Started
    /\ \E action \in ActionInputs(combatState) : \E rnd \in RandomsFor(combatState, action) :
          Returned(processAction(combatState, action, rnd))
    /\ UNCHANGED turnHistory

ProcessAITurnCall ==
    /\ Started
    /\ \E rnd \in AITurnRandoms(combatState) :
          Returned(processAITurn(combatState, rnd))
    /\ UNCHANGED turnHistory

EndTurnCall ==
    /\ Started
    /\ LET result == endTurn(combatState)
       IN  /\ Returned(result)
           /\ turnHistory' = SliceLast(Append(turnHistory, Snapshot(result.cs)),
                                       Len(combatState.initiativeOrder) + 1)

CheckCombatEndCall ==
    /\ Started
    /\ Returned(checkCombatEnd(combatState))
    /\ UNCHANGED turnHistory

EngineNext ==
    \/ InitializeCombatCall
    \/ ProcessActionCall
    \/ ProcessAITurnCall
    \/ EndTurnCall
    \/ CheckCombatEndCall

(***************************************************************************)
(* SpecPath: findPath over small boards.  combatState is the state handed  *)
(* to findPath, pathQuery the other arguments, pathFound what it returned. *)
(***************************************************************************)

PathWidth == 4
PathHeight == 3

\* cells that may hold an obstacle
ObstacleCells == {<<1, 0>>, <<1, 1>>, <<1, 2>>, <<2, 0>>, <<2, 2>>, <<3, 1>>}

MaxObstacles == 3

PathBattlefields ==
    {[width |-> PathWidth, height |-> PathHeight, obstacles |-> obs] :
        obs \in {o \in SUBSET ObstacleCells : Cardinality(o) <= MaxObstacles}}

\* a living character and one at 0 hit points stand on the board
PathRoster ==
    << [NewCharacter("orc", "enemy", <<2, 1>>, 5, 13, 16, 8, "longsword", "aggressive")
           EXCEPT !.health.current = 5],
       [NewCharacter("ally", "companion", <<0, 1>>, 1, 10, 16, 10, "dagger", NONE)
           EXCEPT !.health.current = 0] >>

PathState(battlefield) ==
    [NewCombatState EXCEPT !.characters = PathRoster, !.battlefield = battlefield]

PathExcludes == {"orc", NONE}

NoQuery == <<>>
Pending == "pending"

IdlePath == pathQuery = NoQuery /\ pathFound = Pending
\* no action proposed yet
PendingAction == [NoAction EXCEPT !.type = "pending"]
IdleAI == aiQuery = NoQuery /\ proposed = PendingAction
IdleSight == sightQuery = NoQuery /\ inSight = Pending
IdleQuery == IdlePath /\ IdleAI /\ IdleSight

InitPath ==
    /\ \E battlefield \in PathBattlefields : combatState = PathState(battlefield)
    /\ turnHistory = <<>>
    /\ \E start \in BoardCells(combatState), end \in BoardCells(combatState),
          excludeCharacter \in PathExcludes :
            pathQuery = [start |-> start, end |-> end,
                         excludeCharacter |-> excludeCharacter]
    /\ pathFound = Pending
    /\ IdleAI
    /\ IdleSight

FindPathCall ==
    /\ pathFound = Pending
    /\ pathFound' = findPath(pathQuery.start, pathQuery.end, combatState,
                             pathQuery.excludeCharacter)
    /\ UNCHANGED <<pathQuery, combatState, turnHistory, aiQuery, proposed,
                   sightQuery, inSight>>

PathNext == FindPathCall /\ UNCHANGED <<attackVars, logVars, rngVars>>

(***************************************************************************)
(* SpecAI: EnemyAI.generateAction over drawn combat states.  combatState   *)
(* is the state the AI was constructed over, aiQuery the character it is   *)
(* asked about, proposed what it returned.                                 *)
(***************************************************************************)

AIWidth == 18
AIHeight == 2

AIObstacles == { {}, {<<5, 0>>}, {<<5, 0>>, <<5, 1>>} }

\* the spells a caster knows: id, level and whether the spell has damage
FireboltSpell == [id |-> "firebolt", level |-> 0, damage |-> TRUE]
MagicMissileSpell == [id |-> "magic_missile", level |-> 1, damage |-> TRUE]
ShieldSpell == [id |-> "shield", level |-> 1, damage |-> FALSE]
BurningHandsSpell == [id |-> "burning_hands", level |-> 1, damage |-> TRUE]

AISpellBooks ==
    { <<>>, <<FireboltSpell, ShieldSpell>>,
      <<FireboltSpell, MagicMissileSpell, ShieldSpell, BurningHandsSpell>> }

AIPersonalities == {"aggressive", "archer", "caster", "defensive", NONE}

\* the goblin the AI plays, then a hero and a companion
AIRoster(goblinAt, heroAt, heroHp, allyHp, personality, weaponId, spells, slots, used) ==
    << [NewCharacter("goblin", "enemy", goblinAt, 3, 12, 8, 14, weaponId, personality)
           EXCEPT !.spells = spells,
                  !.resources.spellSlots = <<[current |-> slots, maximum |-> 2]>>,
                  !.movementUsed = used],
       [NewCharacter("hero", "player", heroAt, 4, 15, 16, 14, "longsword", NONE)
           EXCEPT !.health.current = heroHp],
       [NewCharacter("ally", "companion", <<9, 1>>, 1, 10, 16, 10, "dagger", NONE)
           EXCEPT !.health.current = allyHp] >>

InitAI ==
    /\ \E obstacles \in AIObstacles,
          goblinAt \in {<<0, 0>>, <<4, 0>>},
          heroAt \in {<<1, 0>>, <<3, 1>>, <<8, 0>>, <<10, 0>>, <<17, 1>>},
          heroHp \in {0, 4}, allyHp \in {0, 1},
          personality \in AIPersonalities,
          weaponId \in {"shortbow", "longsword", NONE},
          spells \in AISpellBooks, slots \in {0, 2}, used \in {0, 5} :
            combatState =
                [NewCombatState EXCEPT
                    !.characters = AIRoster(goblinAt, heroAt, heroHp, allyHp, personality,
                                            weaponId, spells, slots, used),
                    !.battlefield = [width |-> AIWidth, height |-> AIHeight,
                                     obstacles |-> obstacles]]
    /\ turnHistory = <<>>
    /\ \E choice \in SpellChoices(combatState, 1) : aiQuery = [ci |-> 1, choice |-> choice]
    /\ proposed = PendingAction
    /\ IdlePath
    /\ IdleSight

GenerateActionCall ==
    /\ proposed = PendingAction
    /\ proposed' = generateAction(combatState, aiQuery.ci, aiQuery.choice)
    /\ UNCHANGED <<aiQuery, combatState, turnHistory, pathQuery, pathFound,
                   sightQuery, inSight>>

AINext == GenerateActionCall /\ UNCHANGED <<attackVars, logVars, rngVars>>

(***************************************************************************)
(* SpecSight: hasLineOfSight over the boards of SpecPath.  combatState is  *)
(* the state handed to hasLineOfSight, sightQuery its two cells, inSight   *)
(* what it returned.                                                       *)
(***************************************************************************)

InitSight ==
    /\ \E battlefield \in PathBattlefields : combatState = PathState(battlefield)
    /\ turnHistory = <<>>
    /\ \E start \in BoardCells(combatState), end \in BoardCells(combatState) :
            sightQuery = [start |-> start, end |-> end]
    /\ inSight = Pending
    /\ IdlePath
    /\ IdleAI

HasLineOfSightCall ==
    /\ inSight = Pending
    /\ inSight' = IF hasLineOfSight(sightQuery.start, sightQuery.end, combatState)
                  THEN "true" ELSE "false"
    /\ UNCHANGED <<sightQuery, combatState, turnHistory, pathQuery, pathFound,
                   aiQuery, proposed>>

SightNext == HasLineOfSightCall /\ UNCHANGED <<attackVars, logVars, rngVars>>

(***************************************************************************)
(* Specifications                                                          *)
(***************************************************************************)

IdleRng == genA = 0 /\ genB = 0 /\ outA = <<>> /\ outB = <<>> /\ rngCalls = 0

InitSpecAttack ==
    /\ InitAttack
    /\ InitLog
    /\ IdleRng
    /\ IdleEngine
    /\ IdleQuery

SpecAttack == InitSpecAttack /\ [][AttackNext]_vars

InitSpecLog ==
    /\ atk = <<>>
    /\ InitLog
    /\ IdleRng
    /\ IdleEngine
    /\ IdleQuery

SpecLog == InitSpecLog /\ [][LogNext]_vars

InitSpecRng ==
    /\ atk = <<>>
    /\ InitLog
    /\ InitRng
    /\ IdleEngine
    /\ IdleQuery

SpecRng == InitSpecRng /\ [][RngNext]_vars

InitSpec ==
    /\ atk = <<>>
    /\ InitLog
    /\ IdleRng
    /\ InitEngine
    /\ IdleQuery

Spec == InitSpec /\ [][EngineNext]_vars

InitSpecPath ==
    /\ atk = <<>>
    /\ InitLog
    /\ IdleRng
    /\ InitPath

SpecPath == InitSpecPath /\ [][PathNext]_vars

InitSpecAI ==
    /\ atk = <<>>
    /\ InitLog
    /\ IdleRng
    /\ InitAI

SpecAI == InitSpecAI /\ [][AINext]_vars

InitSpecSight ==
    /\ atk = <<>>
    /\ InitLog
    /\ IdleRng
    /\ InitSight

\* the call is synchronous: once made it runs until it returns
SpecSight == InitSpecSight /\ [][SightNext]_vars /\ WF_vars(SightNext)

(***************************************************************************)
(* Claims                                                                  *)
(***************************************************************************)

\* the action names an acting character that does not exist
NamesNoActor(cs, action) == \A i \in 1..Len(cs.characters) : cs.characters[i].id # action.characterId

\* the target is a character id that no character has
NamesNoTarget(cs, action) ==
    /\ action.target.kind = "id"
    /\ \A i \in 1..Len(cs.characters) : cs.characters[i].id # action.target.id

\* an action processAction has to reject: nobody acts, the target a move or
\* an attack needs is missing or of the wrong shape, the target names no
\* character, or the spell has no spellId
MustBeRejected(cs, action) ==
    \/ NamesNoActor(cs, action)
    \/ action.type = "move" /\ action.target.kind # "position"
    \/ action.type = "attack" /\ action.target.kind # "id"
    \/ action.type \in {"attack", "spell"} /\ NamesNoTarget(cs, action)
    \/ action.type = "spell" /\ action.spellId = NONE

\* C1: in every combat state, processAction on an action that names no
\* existing actor, lacks the target or field it needs, has a target of the
\* wrong shape or a target id no character has, returns false, appends no
\* log entry and leaves every character unchanged.
C1_AsStated ==
    Started =>
        \A action \in ActionInputs(combatState) :
            MustBeRejected(combatState, action) =>
                \A rnd \in RandomsFor(combatState, action) :
                    LET result == processAction(combatState, action, rnd)
                    IN  /\ result.value = "false"
                        /\ result.emitted = <<>>
                        /\ result.cs.characters = combatState.characters

\* C2: after initializeCombat, while isActive is true, currentCharacterId is
\* an element of initiativeOrder and the id of a character in characters.
C2_CurrentIsListed ==
    (Started /\ combatState.isActive) =>
        /\ \E i \in 1..Len(combatState.initiativeOrder) :
              combatState.initiativeOrder[i] = combatState.currentCharacterId
        /\ \E i \in 1..Len(combatState.characters) :
              combatState.characters[i].id = combatState.currentCharacterId

\* endTurn has wrapped from the last entry of initiativeOrder to the first
C2_Wrapped ==
    /\ Started /\ combatState.isActive
    /\ combatState.round = 2
    /\ combatState.currentCharacterId = combatState.initiativeOrder[1]

\* C3: over endTurn calls on an initiative order of length N, turn grows by
\* one per call, round grows by one exactly at the call that wraps to the
\* first entry, the same character is current again after N calls and after
\* no fewer, and round has grown by exactly one over those N calls.
C3_CycleOfN ==
    LET h == turnHistory
        N == Len(combatState.initiativeOrder)
    IN  /\ \A i \in 1..(Len(h) - 1) :
              /\ h[i + 1].turn = h[i].turn + 1
              /\ h[i + 1].round =
                    h[i].round + (IF h[i + 1].id = combatState.initiativeOrder[1]
                                  THEN 1 ELSE 0)
        /\ \A i \in 1..Len(h) : \A j \in 1..Len(h) :
              i < j => ((h[i].id = h[j].id) <=> (j - i = N))
        /\ Len(h) = N + 1 => h[N + 1].round = h[1].round + 1

\* N endTurn calls that began with the second actor of the order current
C3_FullCycle ==
    /\ Started
    /\ Len(turnHistory) = Len(combatState.initiativeOrder) + 1
    /\ turnHistory[1].id = combatState.initiativeOrder[2]
    /\ turnHistory[Len(turnHistory)].id = turnHistory[1].id

PlayersDown(cs) ==
    \A i \in 1..Len(cs.characters) :
        cs.characters[i].type \in {"player", "companion"} => cs.characters[i].health.current <= 0

EnemiesDown(cs) ==
    \A i \in 1..Len(cs.characters) :
        cs.characters[i].type = "enemy" => cs.characters[i].health.current <= 0

\* C4: checkCombatEnd ends the combat exactly when a side has no living
\* member: it sets isActive to false and victor to the other side, to
\* 'enemies' when both sides are down; when both sides have a living member
\* it returns null and changes nothing.
C4_CheckCombatEnd ==
    Started =>
        LET result == checkCombatEnd(combatState)
        IN  /\ PlayersDown(combatState) =>
                  /\ result.value = "enemies"
                  /\ result.cs = [combatState EXCEPT !.isActive = FALSE, !.victor = "enemies"]
            /\ (~PlayersDown(combatState) /\ EnemiesDown(combatState)) =>
                  /\ result.value = "players"
                  /\ result.cs = [combatState EXCEPT !.isActive = FALSE, !.victor = "players"]
            /\ (~PlayersDown(combatState) /\ ~EnemiesDown(combatState)) =>
                  /\ result.value = "null"
                  /\ result.cs = combatState

\* checkCombatEnd has run on a state where nobody on either side is alive
C4_BothSidesDown ==
    /\ Started
    /\ PlayersDown(combatState) /\ EnemiesDown(combatState)
    /\ ~combatState.isActive /\ combatState.victor = "enemies"

Ended(cs) == ~cs.isActive /\ cs.victor # UNDEFINED

\* C5: once checkCombatEnd has ended the combat, no later call changes
\* isActive, victor, a character, turn or round.
C5_AsStated ==
    [][Ended(combatState) =>
          /\ combatState'.isActive = combatState.isActive
          /\ combatState'.victor = combatState.victor
          /\ combatState'.characters = combatState.characters
          /\ combatState'.turn = combatState.turn
          /\ combatState'.round = combatState.round]_vars

\* C6: whenever a character becomes the current actor, its speed is the
\* speed it had before any dash.
C6_AsStated ==
    [][\A i \in 1..Len(combatState'.characters) :
          (/\ combatState'.currentCharacterId # combatState.currentCharacterId
           /\ combatState'.characters[i].id = combatState'.currentCharacterId)
          => combatState'.characters[i].speed = BaseSpeed(combatState'.characters[i].id)]_vars

\* C7: the log never holds more than 100 entries, it is a contiguous suffix,
\* in emission order, of everything emitted, and the append that would make
\* it 101 entries long leaves exactly the 50 most recent entries.
C7_LogRetention ==
    /\ Len(log) <= 100
    /\ \A i \in 1..Len(log) : log[i] = logCount - Len(log) + i
    /\ logLast = 100 => Len(log) = 50

C7_Trimmed == logLast = 100 /\ Len(log) = 50 /\ log[1] = 52 /\ log[50] = 101

\* the case of the example of C8: Strength 16, level 1, armor class 15 and a
\* melee weapon without finesse, or no weapon
C8_Example ==
    /\ atk.called
    /\ atk.strength = 16 /\ atk.level = 1 /\ atk.targetAC = 15
    /\ atk.weaponId \in {NONE, "club", "longsword"}

\* the ability modifier the attack roll of C8 carries, by weapon
C8_AbilityModifier ==
    LET str == (atk.strength - 10) \div 2
        dex == (atk.dexterity - 10) \div 2
    IN  CASE atk.weaponId = "dagger" -> IF str >= dex THEN str ELSE dex
          [] atk.weaponId = "shortbow" -> dex
          [] OTHER -> str

\* hit iff d20 + ability modifier + proficiency bonus >= armor class
C8_General ==
    atk.called =>
        (atk.hit <=> atk.d20 + C8_AbilityModifier + ((atk.level + 3) \div 4) + 1
                     >= atk.targetAC)

\* C8 as stated: in the example a d20 roll of 11 hits and a roll of 10 misses,
\* and in general the attack hits iff d20 + modifier + proficiency >= AC.
C8_AsStated ==
    /\ C8_Example => (atk.d20 = 11 => atk.hit) /\ (atk.d20 = 10 => ~atk.hit)
    /\ C8_General

\* C8 amended: the proficiency bonus at level 1 is ceil(1/4) + 1 = 2, so in
\* the example a d20 roll of 10 (total 15) hits and a roll of 9 misses; in
\* general the attack hits iff d20 + modifier + proficiency >= AC.
C8_HitThreshold ==
    /\ C8_Example => (atk.d20 = 10 => atk.hit) /\ (atk.d20 = 9 => ~atk.hit)
    /\ C8_General

C8_RollOfTenHits == C8_Example /\ atk.d20 = 10 /\ atk.hit /\ atk.attackRoll = 15

\* the one ability modifier a hit adds to its damage
C9_Modifier ==
    IF atk.weaponId = "shortbow" THEN (atk.dexterity - 10) \div 2
    ELSE (atk.strength - 10) \div 2

\* C9 as stated: a hit on a natural 20 deals r1 + r2 + one ability modifier,
\* for every modifier including negative ones.
C9_AsStated ==
    atk.called /\ atk.hit /\ atk.d20 = 20 =>
        atk.damage = atk.r1 + atk.r2 + C9_Modifier

\* C9 amended: a hit on a natural 20 deals max(1, r1 + modifier) + r2, which
\* is what a hit without a natural 20 deals with r1, plus r2; the modifier
\* enters once, inside the floor at 1.
C9_CritDamage ==
    atk.called /\ atk.hit =>
        /\ atk.d20 = 20 => atk.damage = Max(1, atk.r1 + C9_Modifier) + atk.r2
        /\ atk.d20 # 20 => atk.damage = Max(1, atk.r1 + C9_Modifier)

C9_CritUnderFloor ==
    /\ atk.called /\ atk.hit /\ atk.d20 = 20
    /\ atk.r1 + C9_Modifier < 1
    /\ atk.damage = 1 + atk.r2

\* C10: two generators built from the same seed and driven by the same
\* calls return the same values and hold the same seed after every call.
C10_SameSeedSameSequence == genA = genB /\ outA = outB

C10_AfterShuffle ==
    /\ rngCalls >= 3
    /\ outA.op = "shuffle" /\ outA.value # <<"a", "b", "c">>
    /\ genA = genB /\ genA # 0

\* C11 as stated: whatever seed the generator was built with and however
\* many draws were made, the next call of next() returns v with 0 <= v < 1
\* (v is (seed - 1) / 2147483646), nextInt(min, max) returns an integer in
\* min..max and rollDie(sides) an integer in 1..sides.
C11_AsStated ==
    /\ next(genA).value >= 0 /\ next(genA).value < Modulus - 1
    /\ \A range \in {<<0, 1>>, <<1000, 9999>>, <<0 - 3, 3>>} :
          nextInt(genA, range[1], range[2]).value \in range[1]..range[2]
    /\ \A sides \in {4, 20} : rollDie(genA, sides).value \in 1..sides

\* what the seeded generator returned during a call (rnd.random is what
\* Math.random returned)
SeededDraws(rnd) == <<rnd.d20, rnd.faces1, rnd.faces2, rnd.choice>>

\* position, health, flags, resources of every character, and the order
Outcome(cs) == <<cs.characters, cs.initiativeOrder>>

\* C12 as stated: two engines in the same combat state whose seeded
\* generators return the same values (same seed, same calls so far) are in
\* equal character states and have equal initiativeOrder after the same
\* processAction or processAITurn call.
C12_AsStated ==
    Started =>
        /\ \A action \in ActionInputs(combatState) :
              \A r1 \in RandomsFor(combatState, action),
                 r2 \in RandomsFor(combatState, action) :
                  SeededDraws(r1) = SeededDraws(r2) =>
                      Outcome(processAction(combatState, action, r1).cs)
                      = Outcome(processAction(combatState, action, r2).cs)
        /\ \A r1 \in AITurnRandoms(combatState), r2 \in AITurnRandoms(combatState) :
              SeededDraws(r1) = SeededDraws(r2) =>
                  Outcome(processAITurn(combatState, r1).cs)
                  = Outcome(processAITurn(combatState, r2).cs)

\* cells one 8-neighbour step from the set S that findPath may enter: in
\* bounds and not blocked, or the end cell itself
StepFrom(S, cs, end, excludeCharacter) ==
    {n \in BoardCells(cs) :
        /\ \E p \in S : Max(Abs(n[1] - p[1]), Abs(n[2] - p[2])) = 1
        /\ ~isPositionBlocked(n, cs, excludeCharacter) \/ n = end}

RECURSIVE ReachableFrom(_, _, _, _)
ReachableFrom(S, cs, end, excludeCharacter) ==
    IF StepFrom(S, cs, end, excludeCharacter) \subseteq S THEN S
    ELSE ReachableFrom(S \cup StepFrom(S, cs, end, excludeCharacter),
                       cs, end, excludeCharacter)

PathAnswered == pathQuery # NoQuery /\ pathFound # Pending

EndReachable ==
    pathQuery.end \in ReachableFrom({pathQuery.start}, combatState, pathQuery.end,
                                    pathQuery.excludeCharacter)

\* C13: findPath returns (the call terminates with a value), and the value
\* is null exactly when the end cell cannot be reached from the start by
\* in-bounds 8-neighbour steps over cells that are not blocked; a returned
\* path runs from start to end.
C13_NullIffUnreachable ==
    PathAnswered =>
        /\ pathFound = NoPath <=> ~EndReachable
        /\ pathFound # NoPath =>
              /\ pathFound[1] = pathQuery.start
              /\ pathFound[Len(pathFound)] = pathQuery.end

\* the target is walled in: every neighbour of it is blocked and the start
\* is not next to it, and findPath returned null
C13_Enclosed ==
    /\ PathAnswered
    /\ pathFound = NoPath
    /\ calculateDistance(pathQuery.start, pathQuery.end) > 2
    /\ ~isPositionBlocked(pathQuery.end, combatState, pathQuery.excludeCharacter)
    /\ \A i \in 1..Len(getNeighbors(pathQuery.end, combatState.battlefield)) :
          isPositionBlocked(getNeighbors(pathQuery.end, combatState.battlefield)[i],
                            combatState, pathQuery.excludeCharacter)

OpenBoard ==
    /\ combatState.battlefield.obstacles = {}
    /\ \A c \in BoardCells(combatState) :
          ~isPositionBlocked(c, combatState, pathQuery.excludeCharacter)

\* C14 as stated: on a board with no obstacle and no blocking character the
\* returned path has as many steps as the Manhattan distance from start to
\* end.
C14_AsStated ==
    PathAnswered /\ OpenBoard =>
        /\ pathFound # NoPath
        /\ Len(pathFound) - 1 = calculateDistance(pathQuery.start, pathQuery.end)

\* number of steps of a returned path, -1 for null
Steps(path) == IF path = NoPath THEN 0 - 1 ELSE Len(path) - 1

\* C15: findPath(a, b) and findPath(b, a) with the same excludeCharacter
\* are both null or have the same number of steps.
C15_SymmetricCost ==
    PathAnswered =>
        Steps(pathFound) = Steps(findPath(pathQuery.end, pathQuery.start, combatState,
                                          pathQuery.excludeCharacter))

\* the character generateAction was called for
Asked == combatState.characters[aiQuery.ci]

\* the archer policy answered (directly, or as the fallback of the caster
\* policy) with an attack that uses a ranged weapon
RangedAttackProposed ==
    /\ aiQuery # NoQuery
    /\ proposed.type = "attack"
    /\ Asked.aiBehavior \in {"archer", "caster"}
    /\ getWeaponById(proposed.weaponId).category = "ranged"

\* C16: an attack with a ranged weapon proposed by the archer policy names
\* a target no farther (in Manhattan cells) than the weapon's range.normal
\* divided by 5, to which the archer has line of sight.
C16_RangedAttackInRange ==
    RangedAttackProposed =>
        LET ti == getCharacterById(combatState, proposed.target.id)
        IN  /\ ti # 0
            /\ calculateDistance(Asked.position, combatState.characters[ti].position) * 5
                  <= getWeaponById(proposed.weaponId).rangeNormal
            /\ hasLineOfSight(Asked.position, combatState.characters[ti].position,
                              combatState)

\* the caster policy fell back on the archer policy, which shot
C16_FallbackShot ==
    /\ RangedAttackProposed
    /\ Asked.aiBehavior = "caster"
    /\ Asked.position = <<0, 0>>
    /\ proposed.target.id = "hero"

NoLivingOpponent ==
    \A i \in 1..Len(combatState.characters) :
        \/ combatState.characters[i].type = Asked.type
        \/ combatState.characters[i].health.current <= 0

\* C17: a call of generateAction changes nothing in the combat state, and
\* it returns null when no living character of another type exists.
C17_ProposesOnly ==
    [][proposed' # proposed =>
          /\ combatState' = combatState
          /\ NoLivingOpponent => proposed' = NoAction]_vars

\* generateAction was asked while every opponent was down, and returned null
C17_NobodyLeft ==
    /\ aiQuery # NoQuery
    /\ NoLivingOpponent
    /\ proposed = NoAction

\* level of the spell whose id is spellId, -1 when SPELLS has none
SpellLevelOf(spellId) ==
    CASE spellId = "firebolt" -> 0
      [] spellId \in {"magic_missile", "shield"} -> 1
      [] OTHER -> 0 - 1

\* the slot pools C18 expects after a successful cast of spellId
SlotsAfterCast(slots, spellId) ==
    LET level == SpellLevelOf(spellId)
    IN  IF level > 0 /\ level \in DOMAIN slots /\ slots[level].current > 0
        THEN [slots EXCEPT ![level].current = @ - 1]
        ELSE slots

\* C18 as stated: a spell action that succeeds takes one charge from the
\* caster's pool of the spell's level when that level is above 0 and the
\* pool is not empty, changes no slot otherwise, and every pool stays
\* between 0 and its maximum.
C18_AsStated ==
    Started =>
        \A action \in SpellInputs(combatState.currentCharacterId) :
            \A rnd \in RandomsFor(combatState, action) :
                LET ci == getCharacterById(combatState, action.characterId)
                    result == processAction(combatState, action, rnd)
                IN  (ci # 0 /\ result.value = "true") =>
                        /\ result.cs.characters[ci].resources.spellSlots
                             = SlotsAfterCast(combatState.characters[ci].resources.spellSlots,
                                              action.spellId)
                        /\ \A l \in DOMAIN result.cs.characters[ci].resources.spellSlots :
                              LET pool == result.cs.characters[ci].resources.spellSlots[l]
                              IN  pool.current >= 0 /\ pool.current <= pool.maximum

\* C19 as stated: an attack whose target id names a character at 0 hit
\* points returns false, changes nothing (the attacker's hasUsedAction
\* included) and appends no log entry.
C19_AsStated ==
    Started =>
        \A action \in AttackInputs(combatState.currentCharacterId) :
            \A rnd \in RandomsFor(combatState, action) :
                LET ti == IF action.target.kind = "id"
                          THEN getCharacterById(combatState, action.target.id) ELSE 0
                    result == processAction(combatState, action, rnd)
                IN  (ti # 0 /\ combatState.characters[ti].health.current = 0) =>
                        /\ result.value = "false"
                        /\ result.cs = combatState
                        /\ result.emitted = <<>>

\* the initiative the engine holds for the character with this id
InitiativeOf(id) == combatState.characters[getCharacterById(combatState, id)].initiative

\* place of the character with this id in the array the caller passed
RosterIndex(id) == CHOOSE i \in 1..Len(Roster) : Roster[i].id = id

\* C20: after initializeCombat, initiativeOrder lists every character id
\* once, by non-increasing initiative (d20 + Dexterity modifier), ties in
\* the order of the characters array that was passed in, and the current
\* character is the first of the list.
C20_InitiativeOrder ==
    Started =>
        LET order == combatState.initiativeOrder
        IN  /\ Len(order) = Len(Roster)
            /\ {order[i] : i \in 1..Len(order)} = {Roster[i].id : i \in 1..Len(Roster)}
            /\ \E d20s \in InitiativeRolls : \A k \in 1..Len(Roster) :
                  InitiativeOf(Roster[k].id) = d20s[k] + getModifier(Roster[k].dexterity)
            /\ \A i \in 1..Len(order), j \in 1..Len(order) :
                  i < j =>
                      /\ InitiativeOf(order[i]) >= InitiativeOf(order[j])
                      /\ InitiativeOf(order[i]) = InitiativeOf(order[j])
                            => RosterIndex(order[i]) < RosterIndex(order[j])
            /\ Len(turnHistory) = 1 => combatState.currentCharacterId = order[1]

\* all three characters rolled the same initiative and stand in the order
\* of the array the caller passed
C20_TiesKeepOrder ==
    /\ Started
    /\ Len(turnHistory) = 1
    /\ \A i \in 1..Len(Roster) : InitiativeOf(Roster[i].id) = 5
    /\ combatState.initiativeOrder = <<"hero", "ally", "orc">>
    /\ combatState.currentCharacterId = "hero"

\* the per-turn flags of a character
TurnFlags(c) == <<c.hasUsedAction, c.hasUsedBonusAction, c.hasUsedReaction, c.movementUsed>>

\* states endTurn can be called in: the current one, and the ones where a
\* character (whose turn it may not be) has just dodged or moved
BeforeEndTurn ==
    {combatState}
    \cup {processAction(combatState, Action("dodge", c, NoTarget, NONE, NONE), NoRandom).cs :
             c \in {"hero", "ally", "orc"}}
    \cup {processAction(combatState, Action("move", c, PositionTarget(<<1, 1>>), NONE, NONE),
                        NoRandom).cs : c \in {"hero", "ally", "orc"}}

\* what C21 says of one endTurn call from pre to post
EndTurnEffect(pre, post) ==
    LET out == getCharacterById(pre, pre.currentCharacterId)
        place == CHOOSE i \in 1..Len(pre.initiativeOrder) :
                    pre.initiativeOrder[i] = pre.currentCharacterId
    IN  /\ TurnFlags(post.characters[out]) = <<FALSE, FALSE, FALSE, 0>>
        /\ post.currentCharacterId
             = pre.initiativeOrder[(place % Len(pre.initiativeOrder)) + 1]
        /\ post.initiativeOrder = pre.initiativeOrder
        /\ \A i \in 1..Len(pre.characters) :
              /\ post.characters[i].id = pre.characters[i].id
              /\ post.characters[i].position = pre.characters[i].position
              /\ post.characters[i].health = pre.characters[i].health
              /\ i # out => TurnFlags(post.characters[i]) = TurnFlags(pre.characters[i])

\* C21: endTurn resets the outgoing actor's hasUsedAction,
\* hasUsedBonusAction, hasUsedReaction and movementUsed, makes the next id
\* of initiativeOrder (wrapping) current, and leaves initiativeOrder, all
\* positions and health, and the per-turn flags of the others unchanged.
C21_EndTurnFrame ==
    Started => \A pre \in BeforeEndTurn : EndTurnEffect(pre, endTurn(pre).cs)

\* endTurn has handed over from a character that had acted and moved
C21_HandedOver ==
    /\ Len(turnHistory) >= 2
    /\ LET previous == getCharacterById(combatState,
                                        turnHistory[Len(turnHistory) - 1].id)
       IN  /\ TurnFlags(combatState.characters[previous]) = <<FALSE, FALSE, FALSE, 0>>
           /\ combatState.characters[previous].position = <<1, 1>>
           /\ combatState.characters[previous].id # combatState.currentCharacterId

\* what C22 says of a move of characters[ci] to position p from cs
MoveEffect(cs, ci, p, result) ==
    /\ result.value = "true"
    /\ result.cs.characters[ci].position = p
    /\ result.cs.characters[ci].movementUsed
         = cs.characters[ci].movementUsed
           + 5 * calculateDistance(cs.characters[ci].position, p)
    /\ Len(result.emitted) = 1
    /\ result.emitted[1].type = "move"
    /\ result.emitted[1].characterId = cs.characters[ci].id
    /\ result.emitted[1].details.fromPosition = cs.characters[ci].position
    /\ result.emitted[1].details.toPosition = p
    /\ result.cs.characters[ci].hasUsedAction = cs.characters[ci].hasUsedAction
    /\ \A i \in 1..Len(cs.characters) :
          i # ci => result.cs.characters[i] = cs.characters[i]

\* C22: a move to a position puts the actor there, adds 5 times the
\* Manhattan distance covered to its movementUsed, logs one movement entry
\* with the old and the new position, and changes neither hasUsedAction nor
\* any other character.
C22_MoveEffect ==
    Started =>
        \A ci \in 1..Len(combatState.characters), p \in BoardCells(combatState) :
            MoveEffect(combatState, ci, p,
                       processAction(combatState,
                                     Action("move", combatState.characters[ci].id,
                                            PositionTarget(p), NONE, NONE),
                                     NoRandom))

\* the hero has made the diagonal move from (0,0) to (1,1): two cells of
\* Manhattan distance, 10 feet
C22_DiagonalMove ==
    /\ Started
    /\ \E i \in 1..Len(combatState.characters) :
          /\ combatState.characters[i].id = "hero"
          /\ combatState.characters[i].position = <<1, 1>>
          /\ combatState.characters[i].movementUsed = 10
          /\ ~combatState.characters[i].hasUsedAction

HealthInRange ==
    Started =>
        \A i \in 1..Len(combatState.characters) :
            /\ combatState.characters[i].health.current >= 0
            /\ combatState.characters[i].health.current
                 <= combatState.characters[i].health.maximum

\* health.current of the character with this id in cs
HealthOf(cs, id) == cs.characters[getCharacterById(cs, id)].health.current

NoHealing ==
    Started =>
        \A i \in 1..Len(combatState.characters) :
            HealthOf(combatState', combatState.characters[i].id)
                <= combatState.characters[i].health.current

\* C23: from characters with 0 <= health.current <= health.maximum, every
\* state reached through attack and spell actions (and the other engine
\* calls) keeps every health.current within 0..maximum, and no call raises
\* a health.current.
C23_HealthBounds == []HealthInRange /\ [][NoHealing]_vars

\* two characters have been brought to 0 and the third stands
C23_TwoDown ==
    /\ Started
    /\ HealthOf(combatState, "orc") = 0
    /\ HealthOf(combatState, "hero") = 0
    /\ HealthOf(combatState, "ally") = 1

\* what C24 says of a resolved attack of characters[ci] on characters[ti]
AttackEffect(cs, ci, ti, result) ==
    LET entries == result.emitted
        hit == "damage" \in DOMAIN entries[1].details
        after == result.cs.characters[ti].health.current
    IN  /\ result.cs.characters[ci].hasUsedAction
        /\ entries[1].type = "attack"
        /\ entries[1].characterId = cs.characters[ci].id
        /\ entries[1].details.targetId = cs.characters[ti].id
        /\ hit <=> entries[1].details.attackRoll >= cs.characters[ti].armorClass
        /\ hit =>
              /\ Len(entries) = (IF after = 0 THEN 3 ELSE 2)
              /\ entries[2].type = "damage"
              /\ entries[2].characterId = cs.characters[ti].id
              /\ after = Max(0, cs.characters[ti].health.current
                                 - entries[2].details.damage)
              /\ after = 0 => entries[3] = logDeath(cs.characters[ti])
        /\ ~hit =>
              /\ Len(entries) = 1
              /\ entries[1].details.targetAC = cs.characters[ti].armorClass
              /\ after = cs.characters[ti].health.current

\* C24: an attack that resolves sets the attacker's hasUsedAction whether
\* it hits or misses; a hit logs an attack entry, then a damage entry, then
\* a death entry exactly when the target's health.current is 0 after the
\* damage; a miss logs one attack entry and leaves the target's health.
C24_AttackLog ==
    Started =>
        \A action \in AttackInputs(combatState.currentCharacterId) :
            \A rnd \in RandomsFor(combatState, action) :
                LET ci == getCharacterById(combatState, action.characterId)
                    ti == IF action.target.kind = "id"
                          THEN getCharacterById(combatState, action.target.id) ELSE 0
                IN  (ci # 0 /\ ti # 0) =>
                        AttackEffect(combatState, ci, ti,
                                     processAction(combatState, action, rnd))

\* the character whose first turn it is has attacked and the orc is down
C24_KillingBlow ==
    /\ Started
    /\ combatState.turn = 1
    /\ combatState.currentCharacterId = "hero"
    /\ combatState.characters[getCharacterById(combatState, "hero")].hasUsedAction
    /\ HealthOf(combatState, "orc") = 0

(***************************************************************************)
(* C25, C26: the ability modifier of the attack roll and of the damage     *)
(***************************************************************************)

\* proficiency bonus of the attacker: ceil(level / 4) + 1
C25_Proficiency == ((atk.level + 3) \div 4) + 1

\* the ability modifier that was added to the d20 of this attack
C25_AttackModifier == atk.attackRoll - atk.d20 - C25_Proficiency

DodgeEffects(c) == SelectSeq(c.statusEffects, LAMBDA e : e = "dodge")

\* C27: whenever the turn passes to a character, that character carries no
\* dodge effect any more: the effect of its previous turn has been removed
\* (or its duration brought to 0) by then, so dodge effects do not pile up
\* from round to round.
C27_AsStated ==
    [][\A i \in 1..Len(combatState'.characters) :
          (/\ Started
           /\ combatState'.turn # combatState.turn
           /\ combatState'.characters[i].id = combatState'.currentCharacterId)
          => DodgeEffects(combatState'.characters[i]) = <<>>]_vars

(***************************************************************************)
(* C28: the shape of a path findPath returns                               *)
(***************************************************************************)

\* a living character other than the excluded one stands on the cell
HeldByLiving(cell, cs, excludeCharacter) ==
    \E i \in 1..Len(cs.characters) :
        /\ cs.characters[i].id # excludeCharacter
        /\ cs.characters[i].position = cell
        /\ cs.characters[i].health.current > 0

\* C28: a path findPath returns starts at start, ends at end, repeats no
\* cell, steps between in-bounds 8-neighbours, and no cell of it other than
\* start and end is an obstacle or the position of a living character other
\* than excludeCharacter (a character at 0 hit points does not block, and the
\* end cell may be blocked).
C28_PathShape ==
    PathAnswered /\ pathFound # NoPath =>
        /\ Len(pathFound) >= 1
        /\ pathFound[1] = pathQuery.start
        /\ pathFound[Len(pathFound)] = pathQuery.end
        /\ \A i, j \in 1..Len(pathFound) : i # j => pathFound[i] # pathFound[j]
        /\ \A i \in 1..Len(pathFound) :
              /\ pathFound[i][1] \in 0..(combatState.battlefield.width - 1)
              /\ pathFound[i][2] \in 0..(combatState.battlefield.height - 1)
              /\ i > 1 => Max(Abs(pathFound[i][1] - pathFound[i - 1][1]),
                              Abs(pathFound[i][2] - pathFound[i - 1][2])) = 1
              /\ pathFound[i] \notin {pathQuery.start, pathQuery.end} =>
                    /\ pathFound[i] \notin combatState.battlefield.obstacles
                    /\ ~HeldByLiving(pathFound[i], combatState,
                                     pathQuery.excludeCharacter)

\* walled off by three obstacles, the path runs over the cell of the
\* character at 0 hit points and ends on an obstacle
C28_PastTheFallen ==
    /\ PathAnswered
    /\ pathQuery.start = <<0, 0>> /\ pathQuery.end = <<1, 2>>
    /\ combatState.battlefield.obstacles = {<<1, 0>>, <<1, 1>>, <<1, 2>>}
    /\ pathFound = << <<0, 0>>, <<0, 1>>, <<1, 2>> >>

(***************************************************************************)
(* C29: line of sight                                                      *)
(***************************************************************************)

\* the cells of the rasterized line from a to b: one cell for each step
\* along the longer axis, the other coordinate being the exact line rounded
\* to the nearest cell, a half rounding towards a
RasterCells(a, b) ==
    LET dx == Abs(b[1] - a[1])
        dy == Abs(b[2] - a[2])
        sx == IF a[1] < b[1] THEN 1 ELSE 0 - 1
        sy == IF a[2] < b[2] THEN 1 ELSE 0 - 1
    IN  IF dx = 0 /\ dy = 0 THEN {a}
        ELSE IF dx >= dy
        THEN {<<a[1] + k * sx, a[2] + sy * ((2 * k * dy + dx - 1) \div (2 * dx))>> :
                 k \in 0..dx}
        ELSE {<<a[1] + sx * ((2 * k * dx + dy - 1) \div (2 * dy)), a[2] + k * sy>> :
                 k \in 0..dy}

SightAnswered == sightQuery # NoQuery /\ inSight # Pending

SightMatchesLine ==
    SightAnswered =>
        /\ inSight = "false" <=>
              \E c \in RasterCells(sightQuery.start, sightQuery.end)
                         \ {sightQuery.start, sightQuery.end} :
                  c \in combatState.battlefield.obstacles
        /\ Max(Abs(sightQuery.end[1] - sightQuery.start[1]),
               Abs(sightQuery.end[2] - sightQuery.start[2])) <= 1 => inSight = "true"

\* C29: hasLineOfSight(a, b) returns for every pair of cells, and returns
\* false iff a cell of the rasterized line other than a and b is an obstacle:
\* characters on the line and obstacles at a or b do not block, and identical
\* or 8-adjacent cells always see each other.
C29_LineOfSight == []SightMatchesLine /\ <>SightAnswered

\* from an obstacle to an obstacle across the cell of the living orc
C29_AcrossTheOrc ==
    /\ SightAnswered
    /\ sightQuery.start = <<1, 1>> /\ sightQuery.end = <<3, 1>>
    /\ {<<1, 1>>, <<3, 1>>} \subseteq combatState.battlefield.obstacles
    /\ \E i \in 1..Len(combatState.characters) :
          /\ combatState.characters[i].position = <<2, 1>>
          /\ combatState.characters[i].health.current > 0
    /\ inSight = "true"

(***************************************************************************)
(* C30: the target of the aggressive and the default policy                *)
(***************************************************************************)

\* generateAction answered for a character that the aggressive or the
\* default policy plays (defensive, tactical or no behaviour)
MeleePolicyAnswered ==
    /\ aiQuery # NoQuery
    /\ proposed # PendingAction
    /\ Asked.aiBehavior \in {"aggressive", "defensive", "tactical", NONE}

\* the living characters of another type than the one asked about
Opponents ==
    {i \in 1..Len(combatState.characters) :
        /\ combatState.characters[i].type # Asked.type
        /\ combatState.characters[i].health.current > 0}

ManhattanTo(i) ==
    Abs(Asked.position[1] - combatState.characters[i].position[1])
    + Abs(Asked.position[2] - combatState.characters[i].position[2])

\* the opponent at the least Manhattan distance, the first in characters
\* order among those at that distance
Nearest ==
    CHOOSE i \in Opponents :
        \A j \in Opponents :
            ManhattanTo(i) < ManhattanTo(j) \/ (ManhattanTo(i) = ManhattanTo(j) /\ i <= j)

\* the cells of the path findPath gives from the asked character to Nearest
CellsTowardsNearest ==
    LET path == findPath(Asked.position, combatState.characters[Nearest].position,
                         combatState, Asked.id)
    IN  {path[k] : k \in 1..Len(path)}

\* C30: the aggressive and the default policy pick the living character of
\* another type at the least Manhattan distance, the first in characters
\* order on ties; they propose an attack on it iff that distance is at most
\* 1, and otherwise a move along the path towards it or null; a character at
\* 0 hit points or of the own type is never the target.
C30_NearestOpponent ==
    MeleePolicyAnswered =>
        /\ Opponents = {} => proposed = NoAction
        /\ Opponents # {} =>
              /\ proposed.type = "attack" <=> ManhattanTo(Nearest) <= 1
              /\ proposed.type = "attack" =>
                    /\ proposed.characterId = Asked.id
                    /\ proposed.target = IdTarget(combatState.characters[Nearest].id)
              /\ proposed.type # "attack" =>
                    \/ proposed = NoAction
                    \/ /\ proposed.type = "move"
                       /\ proposed.characterId = Asked.id
                       /\ proposed.target.kind = "position"
                       /\ proposed.target.position \in CellsTowardsNearest

\* hero and ally both living and both 10 cells away: the goblin moves along
\* the top row, towards the hero
C30_TieGoesToFirst ==
    /\ MeleePolicyAnswered
    /\ Asked.position = <<0, 0>>
    /\ combatState.battlefield.obstacles = {}
    /\ Opponents = {2, 3}
    /\ ManhattanTo(2) = 10 /\ ManhattanTo(3) = 10
    /\ proposed.type = "move"
    /\ proposed.target.position \in CellsTowardsNearest

(***************************************************************************)
(* C31: the move destinations of the archer policy                         *)
(***************************************************************************)

\* the cells that 8-neighbour steps over unblocked cells (or onto end) reach
\* from the cells of S, grown one step at a time until nothing is added
RECURSIVE ReachableCells(_, _, _, _)
ReachableCells(S, cs, end, excludeCharacter) ==
    UNION { IF T = S THEN S ELSE ReachableCells(T, cs, end, excludeCharacter) :
              T \in {S \cup StepFrom(S, cs, end, excludeCharacter)} }

\* the archer policy answered with a move
ArcherMoveProposed ==
    /\ aiQuery # NoQuery
    /\ proposed # PendingAction
    /\ Asked.aiBehavior = "archer"
    /\ proposed.type = "move"

\* C31: a move destination the archer policy proposes (retreat or
\* repositioning) is a cell of the board that is no obstacle, holds no living
\* character other than the archer, and can be reached from the archer's
\* position by 8-neighbour steps over unblocked cells.
C31_AsStated ==
    ArcherMoveProposed =>
        /\ proposed.target.kind = "position"
        /\ proposed.target.position \in BoardCells(combatState)
        /\ proposed.target.position \notin combatState.battlefield.obstacles
        /\ ~HeldByLiving(proposed.target.position, combatState, Asked.id)
        /\ proposed.target.position \in
              ReachableCells({Asked.position}, combatState, proposed.target.position,
                             Asked.id)

(***************************************************************************)
(* C32: the caster policy                                                  *)
(***************************************************************************)

\* generateAction answered for a character the caster policy plays
CasterAnswered ==
    /\ aiQuery # NoQuery
    /\ proposed # PendingAction
    /\ Asked.aiBehavior = "caster"

\* the spells of the asked character that have a damage component and whose
\* level has a slot pool with a charge left
CastableSpells ==
    {k \in 1..Len(Asked.spells) :
        /\ Asked.spells[k].damage
        /\ Asked.spells[k].level \in DOMAIN Asked.resources.spellSlots
        /\ Asked.resources.spellSlots[Asked.spells[k].level].current > 0}

\* C32: the caster policy proposes a spell only if it is one of the actor's
\* spells with a damage component and a charge left in the slot pool of its
\* level, and aims it at the nearest living character of another type; with
\* no such spell (level-0 damage cantrips have no pool) it proposes what the
\* archer policy proposes in the same state.
C32_CasterPolicy ==
    CasterAnswered =>
        /\ proposed.type = "spell" =>
              /\ \E k \in CastableSpells : proposed.spellId = Asked.spells[k].id
              /\ Opponents # {}
              /\ proposed.characterId = Asked.id
              /\ proposed.target = IdTarget(combatState.characters[Nearest].id)
        /\ CastableSpells = {} =>
              proposed = generateArcherAction(combatState, aiQuery.ci)

\* a caster with charges left that knows only a damage cantrip and a spell
\* without damage shoots its bow, as the archer policy does
C32_CantripOnly ==
    /\ CasterAnswered
    /\ Asked.spells = <<FireboltSpell, ShieldSpell>>
    /\ Asked.resources.spellSlots[1].current = 2
    /\ Opponents # {}
    /\ proposed.type = "attack"
    /\ proposed.weaponId = "shortbow"

(***************************************************************************)
(* C33: the movement budget of an AI move                                  *)
(***************************************************************************)

\* C33: when the current character has used no more movement than its speed
\* and processAITurn applies a move, the character's movementUsed is still
\* at most its speed afterwards.
C33_AsStated ==
    Started =>
        \A ci \in 1..Len(combatState.characters) :
            (/\ combatState.characters[ci].id = combatState.currentCharacterId
             /\ combatState.characters[ci].movementUsed <= combatState.characters[ci].speed)
            => \A rnd \in AITurnRandoms(combatState) :
                  processAITurn(combatState, rnd).value = "move" =>
                      processAITurn(combatState, rnd).cs.characters[ci].movementUsed
                          <= processAITurn(combatState, rnd).cs.characters[ci].speed

(***************************************************************************)
(* C34: the number of steps of a returned path                             *)
(***************************************************************************)

\* the least number of 8-neighbour steps over unblocked cells (or onto end)
\* that lead from a cell of S to end, counted from n; S holds the cells at
\* most n steps away, and end is among those the steps can reach
RECURSIVE StepsNeeded(_, _, _, _, _)
StepsNeeded(S, n, cs, end, excludeCharacter) ==
    IF end \in S \/ StepFrom(S, cs, end, excludeCharacter) \subseteq S THEN n
    ELSE CHOOSE m \in {StepsNeeded(T, n + 1, cs, end, excludeCharacter) :
                          T \in {S \cup StepFrom(S, cs, end, excludeCharacter)}} : TRUE

\* C34: a path findPath returns has the least number of steps among the
\* valid paths from start to end.
C34_AsStated ==
    PathAnswered /\ pathFound # NoPath =>
        Len(pathFound) - 1 = StepsNeeded({pathQuery.start}, 0, combatState,
                                         pathQuery.end, pathQuery.excludeCharacter)

(***************************************************************************)
(* C35: line of sight in both directions                                   *)
(***************************************************************************)

\* C35: hasLineOfSight(a, b) equals hasLineOfSight(b, a) for every obstacle
\* layout and every pair of cells.
C35_AsStated ==
    SightAnswered =>
        (inSight = "true" <=>
            hasLineOfSight(sightQuery.end, sightQuery.start, combatState))

(***************************************************************************)
(* C36: living characters on distinct cells                                *)
(***************************************************************************)

\* no two characters with health.current > 0 stand on the same cell
DistinctLiving(cs) ==
    \A i, j \in 1..Len(cs.characters) :
        (/\ i # j
         /\ cs.characters[i].health.current > 0
         /\ cs.characters[j].health.current > 0)
        => cs.characters[i].position # cs.characters[j].position

\* the living characters stand on cells that are no obstacles
OffObstacles(cs) ==
    \A i \in 1..Len(cs.characters) :
        cs.characters[i].health.current > 0
        => cs.characters[i].position \notin cs.battlefield.obstacles

\* C36: from a state in which the living characters stand on distinct cells
\* that are no obstacles, processAITurn leads to a state in which the living
\* characters stand on distinct cells (endTurn moves nobody).
C36_AsStated ==
    Started /\ DistinctLiving(combatState) /\ OffObstacles(combatState) =>
        /\ \A rnd \in AITurnRandoms(combatState) :
              DistinctLiving(processAITurn(combatState, rnd).cs)
        /\ DistinctLiving(endTurn(combatState).cs)

(***************************************************************************)
(* C37, C38, C39: who may act                                              *)
(***************************************************************************)

\* well-formed actions a caller can submit in the name of character c
ActionsOf(c) ==
    {Action("move", c, PositionTarget(<<1, 1>>), NONE, NONE),
     Action("dash", c, NoTarget, NONE, NONE),
     Action("dodge", c, NoTarget, NONE, NONE)}
    \cup {Action("attack", c, IdTarget(t), "longsword", NONE) :
             t \in {"hero", "ally", "orc"} \ {c}}
    \cup {Action("spell", c, IdTarget(t), NONE, "magic_missile") :
             t \in {"hero", "ally", "orc"} \ {c}}

\* processAction(action) returns false, logs nothing and changes nothing
Refused(action) ==
    \A rnd \in RandomsFor(combatState, action) :
        /\ processAction(combatState, action, rnd).value = "false"
        /\ processAction(combatState, action, rnd).emitted = <<>>
        /\ processAction(combatState, action, rnd).cs = combatState

\* C37: an action that names an existing character other than the current
\* one is refused: processAction returns false and changes nothing.
C37_AsStated ==
    Started =>
        \A i \in 1..Len(combatState.characters) :
            combatState.characters[i].id # combatState.currentCharacterId
            => \A action \in ActionsOf(combatState.characters[i].id) : Refused(action)

\* C38: for a character whose hasUsedAction is true, an attack, spell, dash
\* or dodge action is refused: processAction returns false and changes
\* nothing.
C38_AsStated ==
    Started =>
        \A i \in 1..Len(combatState.characters) :
            combatState.characters[i].hasUsedAction
            => \A action \in ActionsOf(combatState.characters[i].id) :
                  action.type # "move" => Refused(action)

\* C39: an action of a character with health.current = 0 is refused, and
\* processAITurn returns null and changes nothing when the current character
\* has health.current = 0.
C39_AsStated ==
    Started =>
        \A i \in 1..Len(combatState.characters) :
            combatState.characters[i].health.current = 0
            => /\ \A action \in ActionsOf(combatState.characters[i].id) : Refused(action)
               /\ combatState.characters[i].id = combatState.currentCharacterId
                  => \A rnd \in AITurnRandoms(combatState) :
                        /\ processAITurn(combatState, rnd).value = "null"
                        /\ processAITurn(combatState, rnd).cs = combatState

(***************************************************************************)
(* C40: the aggressive enemy does not stall                                *)
(***************************************************************************)

\* the living characters of another type than character ci that a path over
\* unblocked cells leads to
ReachableOpponents(cs, ci) ==
    {i \in 1..Len(cs.characters) :
        /\ cs.characters[i].type # cs.characters[ci].type
        /\ cs.characters[i].health.current > 0
        /\ cs.characters[i].position \in
              ReachableCells({cs.characters[ci].position}, cs,
                             cs.characters[i].position, cs.characters[ci].id)}

\* C40: on the turn of a living aggressive enemy with a speed of at least 5
\* and its movement unused, processAITurn returns null only when no living
\* character of another type can be reached by an unblocked path; otherwise
\* it attacks or moves, so that repeating its turn leads to an attack.
C40_AsStated ==
    Started =>
        \A ci \in 1..Len(combatState.characters) :
            (/\ combatState.characters[ci].id = combatState.currentCharacterId
             /\ combatState.characters[ci].type = "enemy"
             /\ combatState.characters[ci].aiBehavior = "aggressive"
             /\ combatState.characters[ci].health.current > 0
             /\ combatState.characters[ci].speed >= 5
             /\ combatState.characters[ci].movementUsed = 0
             /\ ReachableOpponents(combatState, ci) # {})
            => \A rnd \in AITurnRandoms(combatState) :
                  processAITurn(combatState, rnd).value # "null"

=============================================================================
